---- MODULE Spec2Model ----
(***************************************************************************)
(* Model of the WhatsApp booking bot: the conversation webhook handler     *)
(* (routes/whatsapp.js), the Razorpay payment webhook                      *)
(* (routes/razorpayWebhook.js), the Booking collection and the calendar    *)
(* availability helper (utils/googleCalendar.js).                          *)
(*                                                                         *)
(* JavaScript strings are TLA+ strings; the string helpers below compute   *)
(* what the JavaScript built-ins compute.  A handler is a process whose    *)
(* program counter stops at every storage or calendar call (every await    *)
(* that touches shared state); one step of a process performs the call     *)
(* and the synchronous code that follows it.                               *)
(***************************************************************************)
EXTENDS Integers, Sequences, FiniteSets, TLC

VARIABLES db, nextId, open, calDown, procs, wh, held, links, evc, burst, calc, built

vars == <<db, nextId, open, calDown, procs, wh, held, links, evc, burst, calc, built>>

(***************************************************************************)
(* Bounds of the model                                                     *)
(***************************************************************************)
MaxDocs == 2
MaxEvents == 1

(***************************************************************************)
(* String helpers (JavaScript String built-ins)                            *)
(***************************************************************************)
CharAt(s, i) == SubSeq(s, i, i)

StartsWith(s, pre) == Len(s) >= Len(pre) /\ SubSeq(s, 1, Len(pre)) = pre

Includes(s, sub) == \E i \in 1..(Len(s) - Len(sub) + 1) : SubSeq(s, i, i + Len(sub) - 1) = sub

IndexOf(s, sub) ==
  IF Includes(s, sub)
  THEN CHOOSE i \in 1..(Len(s) - Len(sub) + 1) :
         /\ SubSeq(s, i, i + Len(sub) - 1) = sub
         /\ \A j \in 1..(i - 1) : SubSeq(s, j, j + Len(sub) - 1) # sub
  ELSE 0

IsSpaceChar(c) == c = " "

RECURSIVE TrimLeft(_)
TrimLeft(s) == IF s # "" /\ IsSpaceChar(CharAt(s, 1)) THEN TrimLeft(Tail(s)) ELSE s

RECURSIVE TrimRight(_)
TrimRight(s) ==
  IF s # "" /\ IsSpaceChar(CharAt(s, Len(s))) THEN TrimRight(SubSeq(s, 1, Len(s) - 1)) ELSE s

Trim(s) == TrimRight(TrimLeft(s))

RECURSIVE ToLowerCase(_)
ToLowerCase(s) ==
  LET UpperChars == "ABCDEFGHIJKLMNOPQRSTUVWXYZ"
      LowerChars == "abcdefghijklmnopqrstuvwxyz"
      LowerChar(c) ==
        IF Includes(UpperChars, c) THEN CharAt(LowerChars, IndexOf(UpperChars, c)) ELSE c
  IN IF s = "" THEN "" ELSE LowerChar(CharAt(s, 1)) \o ToLowerCase(Tail(s))

DigitChars == "0123456789"

IsDigitChar(c) == Len(c) = 1 /\ Includes(DigitChars, c)

\* /^\d+$/.test(s)
IsDigits(s) == s # "" /\ \A i \in 1..Len(s) : IsDigitChar(CharAt(s, i))

\* Number(s) for a string of digits
RECURSIVE Number(_)
Number(s) ==
  IF s = "" THEN 0
  ELSE 10 * Number(SubSeq(s, 1, Len(s) - 1)) + (IndexOf(DigitChars, CharAt(s, Len(s))) - 1)

Digit(d) == CharAt(DigitChars, d + 1)

\* String(n).padStart(2, "0") for 0 <= n <= 99
TwoDigits(n) == Digit(n \div 10) \o Digit(n % 10)

(***************************************************************************)
(* Calendar availability (utils/googleCalendar.js)                         *)
(***************************************************************************)
FirstHour == 6
LastHour == 21

SlotLabel(h) == TwoDigits(h) \o ":00 - " \o TwoDigits(h + 1) \o ":00"

\* the default templateSlots of getAvailableSlotsForDate, as labels
CalendarTemplate == [i \in 1..(LastHour - FirstHour + 1) |-> SlotLabel(FirstHour + i - 1)]

\* the fixed clock of the model and the dates whose calendar is tracked
Today == "2026-01-01"
TrackedDates == {Today}
TrackedSlots == {SlotLabel(18), SlotLabel(20)}

\* new Date(`${dateISO}T00:00:00Z`) is a valid date
IsIsoDate(d) ==
  /\ Len(d) = 10
  /\ CharAt(d, 5) = "-" /\ CharAt(d, 8) = "-"
  /\ IsDigits(SubSeq(d, 1, 4)) /\ IsDigits(SubSeq(d, 6, 7)) /\ IsDigits(SubSeq(d, 9, 10))
  /\ Number(SubSeq(d, 6, 7)) \in 1..12 /\ Number(SubSeq(d, 9, 10)) \in 1..31

\* getAvailableSlotsForDate(dateISO): the template slots that overlap no busy
\* range.  A failed freebusy query yields no busy range (getBusyForRange
\* returns []), and an exception inside the try block yields the whole
\* template: both make every template slot available.
getAvailableSlotsForDate(o, dateISO, down) ==
  IF down \/ ~IsIsoDate(dateISO)
  THEN CalendarTemplate
  ELSE LET free == IF dateISO \in DOMAIN o THEN o[dateISO] ELSE {}
           IsFree(l) == l \in free
       IN SelectSeq(CalendarTemplate, IsFree)

(***************************************************************************)
(* Booking documents (models/Booking.js) and the collection operations     *)
(***************************************************************************)
\* meta: {}.  slotMap is the object { slot_<i>: label } kept as its list of
\* entries [id, title] in insertion order; lastDateRows and otherWeeks are
\* kept as their lists of ISO dates.
EmptyMeta == [lastMessageId |-> "", lastDateRows |-> <<>>, otherWeeks |-> <<>>,
              slotMap |-> <<>>, currentSlots |-> <<>>]

\* a document created with no step at all
NewBookingNoStep(id, phone) ==
  [id |-> id, phone |-> phone, step |-> "", sport |-> "", centre |-> "",
   date |-> "", time_slot |-> "", players |-> 0, addons |-> <<>>, name |-> "",
   paid |-> FALSE, calendarEventId |-> "", totalAmount |-> 0, meta |-> EmptyMeta]

\* a document as the schema defaults leave it: step "sport_selection",
\* paid false, addons [], every other field unset
NewBooking(id, phone) ==
  [id |-> id, phone |-> phone, step |-> "sport_selection", sport |-> "", centre |-> "",
   date |-> "", time_slot |-> "", players |-> 0, addons |-> <<>>, name |-> "",
   paid |-> FALSE, calendarEventId |-> "", totalAmount |-> 0, meta |-> EmptyMeta]

\* the value of `booking` when no document was found (null)
NoBooking == NewBooking(0, "")

\* { $set: upd } applied to one document
SetFields(doc, upd) == [k \in DOMAIN doc |-> IF k \in DOMAIN upd THEN upd[k] ELSE doc[k]]

\* { $set: { "meta.<k>": v, ... } } applied to one document
SetMeta(doc, upd) == [doc EXCEPT !.meta = SetFields(doc.meta, upd)]

\* fault: a query that does not filter by phone
MatchingAny(d, phone) == d

Matching(d, phone) == {b \in d : b.phone = phone}

\* Booking.findOne({ phone }): the first matching document in natural order
findOne(d, phone) ==
  IF Matching(d, phone) = {} THEN NoBooking
  ELSE CHOOSE b \in Matching(d, phone) : \A c \in Matching(d, phone) : b.id <= c.id

findById(d, id) ==
  IF \E b \in d : b.id = id THEN CHOOSE b \in d : b.id = id ELSE NoBooking

ReplaceDoc(d, old, new) == (d \ {old}) \cup {new}

\* Booking.deleteOne({ phone })
deleteOne(d, phone) ==
  IF Matching(d, phone) = {} THEN d ELSE d \ {findOne(d, phone)}

(***************************************************************************)
(* Message Interpreter: routes/whatsapp.js lines 28-58                     *)
(***************************************************************************)
\* a || b for strings
Or(a, b) == IF a # "" THEN a ELSE b

\* An inbound payload: hasMessage is false for a webhook without messages;
\* hasButton / hasList tell whether interactive.button_reply / list_reply is
\* present; text is message.text.body ("" when absent).
Payload(id, from, text) ==
  [hasMessage |-> TRUE, id |-> id, from |-> from, hasButton |-> FALSE, buttonId |-> "",
   buttonTitle |-> "", hasList |-> FALSE, listId |-> "", listTitle |-> "", text |-> text]

\* an early filter that lets every payload through
IsActionableAlways(pl) == TRUE

IsActionable(pl) == pl.hasMessage /\ (pl.hasButton \/ pl.hasList \/ pl.text # "")

\* the free-text body preferred to the interactive replies
msgRawTextFirst(pl) ==
  Or(Trim(pl.text), Or(pl.listId, Or(pl.buttonId, Or(pl.listTitle, Or(pl.buttonTitle, "")))))

msgRaw(pl) ==
  Or(pl.listId, Or(pl.buttonId, Or(pl.listTitle, Or(pl.buttonTitle, Or(Trim(pl.text), "")))))

CanonicalToken(pl) == Trim(msgRaw(pl))

(***************************************************************************)
(* Handler processes                                                       *)
(***************************************************************************)
Handlers == {1, 2}
Phones == {"p1"}

NoPayload ==
  [hasMessage |-> FALSE, id |-> "", from |-> "", hasButton |-> FALSE, buttonId |-> "",
   buttonTitle |-> "", hasList |-> FALSE, listId |-> "", listTitle |-> "", text |-> ""]

\* bk is the in-memory mongoose document `booking`, dirty the paths that
\* mongoose has marked modified (what booking.save() would write), log the
\* storage writes, calendar calls and outbound replies performed so far, in
\* order, status the HTTP status answered (0 while the handler runs).
IdleProc ==
  [pc |-> "idle", pl |-> NoPayload, from |-> "", mid |-> "", msg |-> "", msgLower |-> "",
   bk |-> NoBooking, dirty |-> {}, slots |-> <<>>, chosen |-> "", widened |-> FALSE,
   log |-> <<>>, status |-> 0, redelivery |-> FALSE]

\* the handler right after parsing an actionable payload (lines 28-58)
StartProc(pl, redelivery) ==
  [IdleProc EXCEPT !.pc = "findOne", !.pl = pl, !.from = pl.from, !.mid = pl.id,
                   !.msg = CanonicalToken(pl), !.msgLower = ToLowerCase(CanonicalToken(pl)),
                   !.redelivery = redelivery]

World == [db |-> db, nextId |-> nextId, open |-> open, calDown |-> calDown,
          links |-> links, evc |-> evc]

R(p, w) == [p |-> p, w |-> w]

Log(p, e) == [p EXCEPT !.log = Append(@, e)]

\* res.sendStatus(st) and return: the handler's locals are gone
Finish(p, st) ==
  [p EXCEPT !.pc = "done", !.status = st, !.bk = NoBooking, !.dirty = {}, !.slots = <<>>,
            !.chosen = "", !.widened = FALSE]

\* an exception reaching the outer catch: res.sendStatus(500)
Throw(p) == Finish(p, 500)

\* booking.<field> = value: mongoose marks a path modified when its value changes
SetDoc(p, upd) ==
  [p EXCEPT !.bk = SetFields(@, upd),
            !.dirty = @ \cup {k \in DOMAIN upd : upd[k] # p.bk[k]}]

\* booking.meta.<key> = value: a mutation inside a Mixed path, not tracked
SetDocMeta(p, upd) == [p EXCEPT !.bk = SetMeta(@, upd)]

\* booking.save(): writes the modified paths to the document with the same
\* _id; nothing is written when no path is modified; fails when the document
\* is gone
SaveOk(p, w) == p.dirty = {} \/ findById(w.db, p.bk.id).id # 0

SaveWorld(p, w) ==
  IF p.dirty = {} \/ findById(w.db, p.bk.id).id = 0 THEN w
  ELSE LET old == findById(w.db, p.bk.id)
       IN [w EXCEPT !.db = ReplaceDoc(@, old, SetFields(old, [k \in p.dirty |-> p.bk[k]]))]

Saved(p) == IF p.dirty = {} THEN p ELSE Log([p EXCEPT !.dirty = {}], "db:save")

\* Model.findOneAndUpdate({ phone }, { $set: ... }, { upsert: false }) with the
\* update given as the new value of the found document
UpdateWorld(w, phone, new) ==
  IF findOne(w.db, phone).id = 0 THEN w
  ELSE [w EXCEPT !.db = ReplaceDoc(@, findOne(w.db, phone), new)]

\* break out of the switch: line 549 booking.save().catch(() => {}), line 550
Break(p) == IF p.dirty = {} THEN Finish(p, 200) ELSE [p EXCEPT !.pc = "final"]

Dispatch(step) ==
  CASE step = "sport_selection" -> "sport"
    [] step = "centre_selection" -> "centre"
    [] step = "date_selection" -> "date"
    [] step = "time_selection" -> "time"
    [] step = "player_count" -> "players"
    [] step = "addons_selection" -> "addons"
    [] step = "collect_contact" -> "contact"
    [] step = "payment" -> "payment"
    [] OTHER -> "default"

\* lines 61-62: Booking.findOne({ phone: from })
StFindOne(p, w) ==
  LET bk == findOne(w.db, p.from)
  IN IF bk.id = 0 THEN R([p EXCEPT !.pc = "upsert"], w)
     ELSE R([p EXCEPT !.bk = bk, !.pc = "guard"], w)

\* lines 63-67: findOneAndUpdate({ phone }, ..., { upsert: true }).  The
\* store first looks for a matching document: one that is found is updated
\* in place; when none is found the store goes on to insert, and the phone
\* index is not unique (models/Booking.js line 24), so nothing makes the
\* lookup and the insert one step.  Lines 68-72: welcome prompt, return.
StUpsert(p, w) ==
  LET old == findOne(w.db, p.from)
      new == SetFields(old, [phone |-> p.from, step |-> "sport_selection", meta |-> EmptyMeta])
  IN IF old.id = 0 THEN R([p EXCEPT !.pc = "insert"], w)
     ELSE R(Finish(Log(Log([p EXCEPT !.bk = new], "db:upsert"), "send:welcome"), 200),
            [w EXCEPT !.db = ReplaceDoc(@, old, new)])

\* the insert of the upsert that found no document, then lines 68-72
StInsert(p, w) ==
  LET new == NewBooking(w.nextId, p.from)
  IN R(Finish(Log(Log([p EXCEPT !.bk = new], "db:upsert"), "send:welcome"), 200),
       [w EXCEPT !.db = @ \cup {new}, !.nextId = @ + 1])

\* fault: a guard that never recognises a redelivery
IsDuplicateNever(p) == FALSE

IsDuplicate(p) ==
  p.mid # "" /\ p.bk.meta.lastMessageId # "" /\ p.bk.meta.lastMessageId = p.mid

\* lines 75-92 and 103: the duplicate check, the write of meta.lastMessageId,
\* then the choice between universal exit and the switch on booking.step
StGuard(p, w) ==
  IF IsDuplicate(p) THEN R(Finish(p, 200), w)
  ELSE LET old == findOne(w.db, p.from)
           p1 == IF p.mid = "" THEN p
                 ELSE Log(SetDocMeta(p, [lastMessageId |-> p.mid]), "db:mid")
           w1 == IF p.mid = "" \/ old.id = 0 THEN w
                 ELSE UpdateWorld(w, p.from, SetMeta(old, [lastMessageId |-> p.mid]))
           next == IF p.msgLower = "exit" \/ p.msgLower = "cancel" THEN "cancel"
                   ELSE Dispatch(p.bk.step)
       IN R([p1 EXCEPT !.pc = next], w1)

\* Booking.deleteOne({ phone }) and the history kept about the deleted booking
Deleted(w, phone) ==
  LET old == findOne(w.db, phone)
  IN IF old.id = 0 THEN w
     ELSE [w EXCEPT !.db = deleteOne(@, phone), !.evc = [@ EXCEPT ![old.id] = 0],
                    !.links = @ \ {old.id}]

\* fault: the acknowledgment is sent but the booking is kept
StCancelKeepsBooking(p, w) ==
  R(Finish(Log(Log(p, "db:delete"), "send:cancelled"), 200), w)

\* lines 88-92: universal exit
StCancel(p, w) ==
  R(Finish(Log(Log(p, "db:delete"), "send:cancelled"), 200), Deleted(w, p.from))

\* the common shape of a step that accepts its input: set the fields, save,
\* send the next prompt, break
AcceptAndSave(p, w, upd, reply) ==
  LET p1 == SetDoc(p, upd)
  IN IF ~SaveOk(p1, w) THEN R(Throw(p1), w)
     ELSE R(Break(Log(Saved(p1), reply)), SaveWorld(p1, w))

\* the common shape of a step that rejects its input: re-prompt, break
Reject(p, w, reply) == R(Break(Log(p, reply)), w)

\* lines 105-119: case "sport_selection"
StSport(p, w) ==
  IF \/ p.msg = "sport_pickleball" \/ p.msg = "sport_padel"
     \/ Includes(p.msgLower, "pickle") \/ Includes(p.msgLower, "padel")
  THEN AcceptAndSave(p, w,
         [sport |-> IF p.msg = "sport_padel" \/ Includes(p.msgLower, "padel")
                    THEN "Padel" ELSE "Pickleball",
          step |-> "centre_selection"], "send:centre_prompt")
  ELSE Reject(p, w, "send:sport_reprompt")

\* lines 122-136: case "centre_selection"
StCentre(p, w) ==
  IF p.msg \in {"centre_jw", "centre_taj", "centre_itc"}
  THEN AcceptAndSave(p, w,
         [centre |-> IF p.msg = "centre_jw" THEN "JW Marriott"
                     ELSE IF p.msg = "centre_taj" THEN "Taj West End" ELSE "ITC Gardenia",
          step |-> "date_selection"], "send:date_prompt")
  ELSE Reject(p, w, "send:invalid")

\* msg.split("_")[1]
SplitSecond(s) ==
  LET i == IndexOf(s, "_")
      rest == SubSeq(s, i + 1, Len(s))
      j == IndexOf(rest, "_")
  IN IF i = 0 THEN "" ELSE IF j = 0 THEN rest ELSE SubSeq(rest, 1, j - 1)

\* lines 442-454: case "player_count"
StPlayers(p, w) ==
  IF p.msg \in {"players_2", "players_3", "players_4"} \/ IsDigits(p.msg)
  THEN AcceptAndSave(p, w,
         [players |-> IF StartsWith(p.msg, "players_") THEN Number(SplitSecond(p.msg))
                      ELSE Number(p.msg),
          step |-> "addons_selection"], "send:addons_prompt")
  ELSE Reject(p, w, "send:invalid")

PricePerPlayer == 300
SpaPrice == 2000
GymPrice == 500
SaunaPrice == 800

AddonChoice(msg) ==
  CASE msg = "1" -> <<"spa">> [] msg = "2" -> <<"gym">> [] msg = "3" -> <<"sauna">>
    [] OTHER -> <<>>

InSeq(x, s) == \E i \in 1..Len(s) : s[i] = x

\* lines 462-467
Total(players, addons) ==
  (IF players # 0 THEN players ELSE 1) * PricePerPlayer
  + (IF InSeq("spa", addons) THEN SpaPrice ELSE 0)
  + (IF InSeq("gym", addons) THEN GymPrice ELSE 0)
  + (IF InSeq("sauna", addons) THEN SaunaPrice ELSE 0)

\* an add-ons step which adds the price to the total already stored
StAddonsAccumulate(p, w) ==
  IF p.msg \in {"1", "2", "3", "4"}
  THEN AcceptAndSave(p, w,
         [addons |-> AddonChoice(p.msg),
          totalAmount |-> p.bk.totalAmount + Total(p.bk.players, AddonChoice(p.msg)),
          step |-> "collect_contact"], "send:name_prompt")
  ELSE Reject(p, w, "send:invalid")

\* lines 457-476: case "addons_selection"
StAddons(p, w) ==
  IF p.msg \in {"1", "2", "3", "4"}
  THEN AcceptAndSave(p, w,
         [addons |-> AddonChoice(p.msg),
          totalAmount |-> Total(p.bk.players, AddonChoice(p.msg)),
          step |-> "collect_contact"], "send:name_prompt")
  ELSE Reject(p, w, "send:invalid")

\* lines 479-495: case "collect_contact"; the payment link carries the
\* booking's _id as its reference
StContact(p, w) ==
  IF p.msg = "" \/ Len(p.msg) < 2 THEN Reject(p, w, "send:invalid")
  ELSE LET r == AcceptAndSave(p, w, [name |-> p.msg, step |-> "payment"], "send:payment_link")
       IN IF r.p.status = 500 THEN r
          ELSE R(r.p, [r.w EXCEPT !.links = @ \cup {p.bk.id}])

\* a default that leaves the loaded step marked modified: the closing save
\* writes it back
StDefaultRestored(p, w) ==
  LET old == findOne(w.db, p.from)
  IN R(Break(Log(Log([p EXCEPT !.dirty = {"step"}], "db:update"), "send:welcome_back")),
       UpdateWorld(w, p.from, SetFields(old, [step |-> "sport_selection"])))

\* lines 539-545: default of the switch
StDefault(p, w) ==
  LET old == findOne(w.db, p.from)
  IN R(Break(Log(Log(p, "db:update"), "send:welcome_back")),
       UpdateWorld(w, p.from, SetFields(old, [step |-> "sport_selection"])))

\* lines 548-550: the closing booking.save().catch(() => {})
StFinal(p, w) == R(Finish(IF SaveOk(p, w) THEN Saved(p) ELSE p, 200), SaveWorld(p, w))

(***************************************************************************)
(* case "date_selection": lines 139-238                                    *)
(***************************************************************************)
DaysPerWeek == 7
WeeksOffered == 3

\* the date n days after iso; the model's clock keeps every offered date
\* inside the month of Today
AddDays(iso, n) == SubSeq(iso, 1, 8) \o TwoDigits(Number(SubSeq(iso, 9, 10)) + n)

\* Number(s) where NaN is rendered as 0 (every use subtracts 1 and indexes)
NumberOrNaN(s) == IF IsDigits(s) THEN Number(s) ELSE 0

TodPrompt(p) == Log(p, "send:tod_prompt")

\* the first storage or calendar call of each branch of the case
StDate(p, w) ==
  LET old == findOne(w.db, p.from)
      writeMeta(q) == UpdateWorld(w, p.from, SetFields(old, [meta |-> q.bk.meta]))
      writeDate(q) == UpdateWorld(w, p.from, SetFields(old, [date |-> q.bk.date, step |-> q.bk.step]))
  IN
  IF p.msg = "date_today" THEN
    LET slots == getAvailableSlotsForDate(w.open, Today, w.calDown)
    IN IF Len(slots) = 0
       THEN R(Finish(Log(Log(Log(p, "cal:avail"), "send:no_slots_today"), "send:date_prompt"), 200), w)
       ELSE R([SetDocMeta(SetDoc(Log(p, "cal:avail"), [date |-> Today, step |-> "time_selection"]),
                          [lastDateRows |-> <<Today>>]) EXCEPT !.pc = "date_write"], w)
  ELSE IF p.msg = "date_this_week" THEN
    LET q == SetDocMeta(p, [lastDateRows |-> [i \in 1..DaysPerWeek |-> AddDays(Today, i - 1)]])
    IN R(Break(Log(Log(q, "db:update"), "send:date_list")), writeMeta(q))
  ELSE IF p.msg = "date_other" THEN
    LET q == SetDocMeta(p, [otherWeeks |-> [k \in 1..WeeksOffered |-> AddDays(Today, k * DaysPerWeek)]])
    IN R(Break(Log(Log(q, "db:update"), "send:week_buttons")), writeMeta(q))
  ELSE IF StartsWith(p.msg, "date_") THEN
    LET q == SetDoc(p, [date |-> SubSeq(p.msg, 6, Len(p.msg)), step |-> "time_selection"])
    IN R(Break(TodPrompt(Log(q, "db:update"))), writeDate(q))
  ELSE IF StartsWith(p.msg, "week_") THEN
    LET weekIndex == NumberOrNaN(SplitSecond(p.msg))
        weeks == p.bk.meta.otherWeeks
    IN IF weekIndex \notin 1..Len(weeks) THEN R(Finish(Log(p, "send:invalid"), 200), w)
       ELSE LET q == SetDocMeta(p, [lastDateRows |->
                       [i \in 1..DaysPerWeek |-> AddDays(weeks[weekIndex], i - 1)]])
            IN R(Break(Log(Log(q, "db:update"), "send:date_list")),
                 UpdateWorld(w, p.from, SetFields(old, [meta |-> q.bk.meta, step |-> q.bk.step])))
  ELSE IF Len(p.bk.meta.lastDateRows) > 0 /\ IsDigits(p.msg) THEN
    IF Number(p.msg) \in 1..Len(p.bk.meta.lastDateRows)
    THEN LET q == SetDoc(p, [date |-> p.bk.meta.lastDateRows[Number(p.msg)],
                             step |-> "time_selection"])
         IN R(Break(TodPrompt(Log(q, "db:update"))), writeDate(q))
    ELSE Reject(p, w, "send:invalid")
  ELSE Reject(p, w, "send:invalid")

\* line 155: the write of date, step and the whole in-memory meta
StDateWrite(p, w) ==
  LET old == findOne(w.db, p.from)
  IN R(Break(TodPrompt(Log(p, "db:update"))),
       UpdateWorld(w, p.from, SetFields(old, [date |-> p.bk.date, step |-> p.bk.step,
                                              meta |-> p.bk.meta])))

(***************************************************************************)
(* case "time_selection": lines 241-439                                    *)
(***************************************************************************)
\* stand-ins for the en dash, em dash and minus sign
EnDash == "~"
EmDash == "^"
MinusSign == "|"

RECURSIVE CollapseSpaces(_)
CollapseSpaces(s) ==
  IF s = "" THEN ""
  ELSE IF IsSpaceChar(CharAt(s, 1)) THEN " " \o CollapseSpaces(TrimLeft(s))
  ELSE CharAt(s, 1) \o CollapseSpaces(Tail(s))

RECURSIVE ReplaceDashes(_)
ReplaceDashes(s) ==
  IF s = "" THEN ""
  ELSE (IF CharAt(s, 1) \in {EnDash, EmDash, MinusSign} THEN "-" ELSE CharAt(s, 1))
       \o ReplaceDashes(Tail(s))

\* line 95
normalizeSlot(s) == Trim(ReplaceDashes(CollapseSpaces(s)))

\* the length of a match of \d{1,2}:\d{2} at position i (0 when none)
TimeAt(s, i) ==
  IF /\ i + 4 <= Len(s) /\ IsDigits(SubSeq(s, i, i + 1)) /\ CharAt(s, i + 2) = ":"
     /\ IsDigits(SubSeq(s, i + 3, i + 4)) THEN 5
  ELSE IF /\ i + 3 <= Len(s) /\ IsDigitChar(CharAt(s, i)) /\ CharAt(s, i + 1) = ":"
          /\ IsDigits(SubSeq(s, i + 2, i + 3)) THEN 4
  ELSE 0

PadStart5(t) == IF Len(t) < 5 THEN "0" \o t ELSE t

\* lines 96-100: "" stands for null
extractTimes(s) ==
  LET Firsts == {i \in 1..Len(s) : TimeAt(s, i) > 0
                   /\ \E j \in (i + TimeAt(s, i))..Len(s) : TimeAt(s, j) > 0}
  IN IF Firsts = {} THEN [start |-> "", end |-> ""]
     ELSE LET i == CHOOSE x \in Firsts : \A y \in Firsts : x <= y
              j == CHOOSE x \in (i + TimeAt(s, i))..Len(s) :
                     /\ TimeAt(s, x) > 0
                     /\ \A y \in (i + TimeAt(s, i))..(x - 1) : TimeAt(s, y) = 0
          IN [start |-> PadStart5(SubSeq(s, i, i + TimeAt(s, i) - 1)),
              end |-> PadStart5(SubSeq(s, j, j + TimeAt(s, j) - 1))]

\* s.map(normalizeSlot)
NormalizeAll(s) == [i \in 1..Len(s) |-> normalizeSlot(s[i])]

\* s.map(extractTimes)
ExtractAll(s) == [i \in 1..Len(s) |-> extractTimes(s[i])]

\* fault: every occurrence is kept
UniqKeepsAll(s) == s

\* Array.from(new Set(s)): first occurrences, in order
RECURSIVE Uniq(_)
Uniq(s) ==
  IF Len(s) = 0 THEN <<>>
  ELSE LET init == Uniq(SubSeq(s, 1, Len(s) - 1))
       IN IF InSeq(s[Len(s)], init) THEN init ELSE Append(init, s[Len(s)])

\* lines 248-261
TemplateSlots(msg) ==
  IF msg = "tod_morning" THEN [i \in 1..6 |-> SlotLabel(5 + i)]
  ELSE IF msg = "tod_afternoon" THEN [i \in 1..5 |-> SlotLabel(11 + i)]
  ELSE [i \in 1..5 |-> SlotLabel(16 + i)]

\* lines 277-293: the template slots matched against availability
BucketAvailable(msg, slotsAvail) ==
  LET uniqAvail == Uniq(NormalizeAll(slotsAvail))
      InAvail(t) == InSeq(normalizeSlot(t), uniqAvail)
      direct == SelectSeq(TemplateSlots(msg), InAvail)
      HasTimes(a) == extractTimes(a).start # ""
      availRanges == ExtractAll(SelectSeq(uniqAvail, HasTimes))
      SameTimes(t) == extractTimes(t).start # "" /\ InSeq(extractTimes(t), availRanges)
  IN IF Len(direct) = 0 /\ Len(uniqAvail) > 0 /\ Len(availRanges) > 0
     THEN SelectSeq(TemplateSlots(msg), SameTimes)
     ELSE direct

\* lines 295-343: the labels the catalog is built from: the bucket's matched
\* slots, or the whole day's when the bucket has none
BucketCatalog(msg, slotsAvail) ==
  IF Len(BucketAvailable(msg, slotsAvail)) = 0
  THEN Uniq(NormalizeAll(slotsAvail))
  ELSE Uniq(NormalizeAll(BucketAvailable(msg, slotsAvail)))

SlotId(i) == "slot_" \o (IF i < 10 THEN Digit(i) ELSE TwoDigits(i))

\* the slotMap built from an ordered label list (lines 298-304, 339-343, 420-421)
BuildSlotMap(labels) == [i \in 1..Len(labels) |-> [id |-> SlotId(i - 1), title |-> labels[i]]]

\* booking.meta.slotMap[msg] ("" when the lookup is undefined).  The slotMap
\* read back from the store is a plain object: a key it does not own is
\* looked up on Object.prototype, whose members are functions.
SlotMapGet(slotMap, key) ==
  LET inherited == {"constructor", "toString", "valueOf", "hasOwnProperty"}
  IN IF \E i \in 1..Len(slotMap) : slotMap[i].id = key
     THEN slotMap[CHOOSE i \in 1..Len(slotMap) : slotMap[i].id = key].title
     ELSE IF key \in inherited THEN "function " \o key \o "() { [native code] }"
     ELSE ""

\* a resolution which reads a numeric reply as a 0-based index
ResolveChosenZeroBased(meta, msg) ==
  IF SlotMapGet(meta.slotMap, msg) # "" THEN SlotMapGet(meta.slotMap, msg)
  ELSE IF IsDigits(msg) /\ Len(meta.currentSlots) > 0
    THEN (IF Number(msg) + 1 \in 1..Len(meta.currentSlots) THEN meta.currentSlots[Number(msg) + 1] ELSE "")
  ELSE IF InSeq(msg, meta.currentSlots) THEN msg
  ELSE ""

\* lines 375-398: resolution of a reply against the stored catalog
ResolveChosen(meta, msg) ==
  LET NormEq(c) == ToLowerCase(normalizeSlot(c)) = ToLowerCase(normalizeSlot(msg))
      hits == SelectSeq(meta.currentSlots, NormEq)
  IN IF SlotMapGet(meta.slotMap, msg) # "" THEN SlotMapGet(meta.slotMap, msg)
     ELSE IF IsDigits(msg) /\ Len(meta.currentSlots) > 0
       THEN (IF Number(msg) \in 1..Len(meta.currentSlots) THEN meta.currentSlots[Number(msg)] ELSE "")
     ELSE IF InSeq(msg, meta.currentSlots) THEN msg
     ELSE IF Len(hits) > 0 THEN hits[1] ELSE ""

IsTod(msg) == msg \in {"tod_morning", "tod_afternoon", "tod_evening"}

\* a bucket choice without the fallback to the day's slots of lines 295-320
StTimeNoWidening(p, w) ==
  IF IsTod(p.msg) THEN
    LET slotsAvail == getAvailableSlotsForDate(w.open, p.bk.date, w.calDown)
        available == BucketAvailable(p.msg, slotsAvail)
        q == Log(p, "cal:avail")
    IN IF Len(available) = 0
       THEN R(Finish(Log(Log(q, "send:no_slots"), "send:tod_prompt"), 200), w)
       ELSE R([q EXCEPT !.slots = BucketCatalog(p.msg, slotsAvail), !.pc = "time_persist"], w)
  ELSE
    LET bk == findOne(w.db, p.from)
        chosen == ResolveChosen(bk.meta, p.msg)
    IN IF chosen = "" THEN R(Finish(Log([p EXCEPT !.bk = bk, !.dirty = {}], "send:invalid"), 200), w)
       ELSE R([p EXCEPT !.bk = bk, !.dirty = {}, !.chosen = chosen, !.pc = "time_check"], w)

\* lines 246-332 (a bucket choice: availability query and catalog content) and
\* lines 368-403 (a slot reply: reload of the booking and resolution)
StTime(p, w) ==
  IF IsTod(p.msg) THEN
    LET slotsAvail == getAvailableSlotsForDate(w.open, p.bk.date, w.calDown)
        uniqAvail == Uniq(NormalizeAll(slotsAvail))
        available == BucketAvailable(p.msg, slotsAvail)
        q == Log(p, "cal:avail")
    IN IF Len(available) = 0 /\ Len(uniqAvail) > 0
       THEN R([q EXCEPT !.slots = BucketCatalog(p.msg, slotsAvail), !.widened = TRUE,
                        !.pc = "time_persist"], w)
       ELSE IF Len(available) = 0
       THEN R(Finish(Log(Log(q, "send:no_slots"), "send:tod_prompt"), 200), w)
       ELSE R([q EXCEPT !.slots = BucketCatalog(p.msg, slotsAvail), !.pc = "time_persist"], w)
  ELSE
    LET bk == findOne(w.db, p.from)
        chosen == ResolveChosen(bk.meta, p.msg)
    IN IF chosen = "" THEN R(Finish(Log([p EXCEPT !.bk = bk, !.dirty = {}], "send:invalid"), 200), w)
       ELSE R([p EXCEPT !.bk = bk, !.dirty = {}, !.chosen = chosen, !.pc = "time_check"], w)

\* lines 307-320 and 346-362: the catalog is written and offered; booking
\* becomes the updated document, and a missing document is a TypeError
StTimePersist(p, w) ==
  LET old == findOne(w.db, p.from)
      new == SetMeta(old, [slotMap |-> BuildSlotMap(p.slots), currentSlots |-> p.slots])
      shape == IF p.widened THEN "send:slots_list"
               ELSE IF Len(p.slots) <= 3 THEN "send:slots_buttons" ELSE "send:slots_list"
      q == IF p.widened THEN Log(Log(p, "db:update"), "send:bucket_empty") ELSE Log(p, "db:update")
  IN IF old.id = 0 THEN R(Throw(p), w)
     ELSE R(Finish(Log([q EXCEPT !.bk = new, !.dirty = {}], shape), 200),
            UpdateWorld(w, p.from, new))

\* a final check which takes the resolved slot without looking
StTimeCheckSkipped(p, w) ==
  R([SetDoc(Log(p, "cal:avail"), [time_slot |-> p.chosen, step |-> "player_count"])
       EXCEPT !.pc = "time_save"], w)

\* lines 415-416: normalizedNow.includes(normalizeSlot(chosen))
TimeRecheck(slotsNow, chosen) == InSeq(normalizeSlot(chosen), Uniq(NormalizeAll(slotsNow)))

\* line 500: available.includes(booking.time_slot)
CommitRecheck(available, time_slot) == InSeq(time_slot, available)

\* lines 405-427: the final availability check of the resolved slot
StTimeCheck(p, w) ==
  LET slotsNow == getAvailableSlotsForDate(w.open, p.bk.date, w.calDown)
      normalizedNow == Uniq(NormalizeAll(slotsNow))
      StillThere(s) == InSeq(normalizeSlot(s), normalizedNow)
      q == Log(p, "cal:avail")
  IN IF ~TimeRecheck(slotsNow, p.chosen)
     THEN LET kept == SelectSeq(p.bk.meta.currentSlots, StillThere)
          IN R([SetDocMeta(Log(q, "send:slot_taken"),
                           [currentSlots |-> kept, slotMap |-> BuildSlotMap(kept)])
                  EXCEPT !.pc = "time_refresh"], w)
     ELSE R([SetDoc(q, [time_slot |-> p.chosen, step |-> "player_count"])
               EXCEPT !.pc = "time_save"], w)

\* line 422: the refreshed catalog is written
StTimeRefresh(p, w) ==
  LET old == findOne(w.db, p.from)
  IN R(Finish(Log(p, "db:update"), 200),
       UpdateWorld(w, p.from, SetMeta(old, [slotMap |-> p.bk.meta.slotMap,
                                            currentSlots |-> p.bk.meta.currentSlots])))

\* lines 429-438: booking.save() of time_slot and step, the players prompt
StTimeSave(p, w) ==
  IF ~SaveOk(p, w) THEN R(Throw(p), w)
  ELSE R(Finish(Log(Saved(p), "send:players_prompt"), 200), SaveWorld(p, w))

(***************************************************************************)
(* case "payment": lines 498-537                                           *)
(***************************************************************************)
IsDone(p) == p.msg = "payment_done" \/ p.msgLower = "paid" \/ p.msgLower = "done"

\* lines 499-510 (the availability recheck of 'done'), 530-535
StPayment(p, w) ==
  IF IsDone(p) THEN
    LET available == getAvailableSlotsForDate(w.open, p.bk.date, w.calDown)
        q == Log(p, "cal:avail")
    IN IF ~CommitRecheck(available, p.bk.time_slot)
       THEN R([SetDoc(Log(q, "send:slot_taken"), [step |-> "date_selection"])
                 EXCEPT !.pc = "pay_rollback"], w)
       ELSE R([q EXCEPT !.pc = "pay_event"], w)
  ELSE IF p.msg = "payment_cancel" \/ p.msgLower = "cancel" THEN
    R(Break(Log(Log(p, "db:delete"), "send:cancelled")), Deleted(w, p.from))
  ELSE Reject(p, w, "send:payment_info")

\* lines 503-509
StPayRollback(p, w) ==
  IF ~SaveOk(p, w) THEN R(Throw(p), w)
  ELSE R(Finish(Log(Saved(p), "send:date_prompt"), 200), SaveWorld(p, w))

EventId(n) == "evt" \o Digit(n)

\* calendar.events.insert for the slot of a booking: the slot becomes busy
EventCreated(w, bk) ==
  [w EXCEPT !.evc = [@ EXCEPT ![bk.id] = @ + 1],
            !.open = [d \in DOMAIN @ |-> IF d = bk.date THEN @[d] \ {bk.time_slot} ELSE @[d]]]

\* createEvent outside a try/catch: its failure reaches the handler's catch
StPayEventFatal(p, w, outcome) ==
  IF outcome = "ok"
  THEN R([SetDoc(SetDoc(Log(p, "cal:event"), [calendarEventId |-> EventId(w.evc[p.bk.id] + 1)]),
                 [paid |-> TRUE, step |-> "completed"]) EXCEPT !.pc = "pay_save"],
         EventCreated(w, p.bk))
  ELSE R(Throw(p), w)

\* lines 512-526: createEvent inside try/catch, then paid and step in memory
StPayEvent(p, w, outcome) ==
  LET q == IF outcome = "ok"
           THEN SetDoc(Log(p, "cal:event"), [calendarEventId |-> EventId(w.evc[p.bk.id] + 1)])
           ELSE p
  IN R([SetDoc(q, [paid |-> TRUE, step |-> "completed"]) EXCEPT !.pc = "pay_save"],
       IF outcome = "ok" THEN EventCreated(w, p.bk) ELSE w)

\* lines 527-529: booking.save(), the confirmation, break
StPaySave(p, w) ==
  IF ~SaveOk(p, w) THEN R(Throw(p), w)
  ELSE R(Break(Log(Saved(p), "send:confirmed")), SaveWorld(p, w))

(***************************************************************************)
(* Razorpay webhook: routes/razorpayWebhook.js, event payment_link.paid    *)
(***************************************************************************)
IdleHook == [pc |-> "idle", bk |-> NoBooking]

\* lines 42-71: Booking.findByIdAndUpdate(referenceId, { $set: { paid: true,
\* step: "completed", ... } }, { new: true })
RzpPaid(h, w, ref) ==
  LET old == findById(w.db, ref)
      new == SetFields(old, [paid |-> TRUE, step |-> "completed"])
  IN IF old.id = 0 THEN R(IdleHook, w)
     ELSE R([pc |-> "event", bk |-> new],
            [w EXCEPT !.db = ReplaceDoc(@, old, new)])

\* lines 73-98: createEvent and booking.save() inside try/catch, then the
\* confirmation message
RzpEvent(h, w, outcome) ==
  LET old == findById(w.db, h.bk.id)
      evt == EventId(w.evc[h.bk.id] + 1)
      w1 == IF outcome = "ok" THEN EventCreated(w, h.bk) ELSE w
      w2 == IF outcome = "ok" /\ old.id # 0
            THEN [w1 EXCEPT !.db = ReplaceDoc(@, old, SetFields(old, [calendarEventId |-> evt]))]
            ELSE w1
  IN R(IdleHook, w2)

(***************************************************************************)
(* The state machine                                                       *)
(***************************************************************************)
MsgIds == {"m1", "m2", "m3", "m4", "m5"}

\* WhatsApp message ids are unique: a new message carries an id that no
\* booking, handler or pending redelivery remembers (the least such id)
UsedIds ==
  {b.meta.lastMessageId : b \in db} \cup {procs[h].pl.id : h \in Handlers} \cup {held.pl.id}

FreshId == CHOOSE id \in MsgIds \ UsedIds : \A other \in MsgIds \ UsedIds : Len(id) <= Len(other) /\ Number(Tail(id)) <= Number(Tail(other))

\* what a user sends: cancel (or exit), or a reply to the prompt of the step the
\* conversation is at ('start' is sent where a user would restart: at the
\* first prompt, in the middle of a booking and after its completion); a
\* user whose booking is marked paid sends nothing else
UserTokens(bk) ==
  {"Cancel"} \cup
  (CASE bk.paid -> (IF bk.step = "completed" THEN {"start"} ELSE {})
     [] bk.step = "sport_selection" -> {"sport_padel", "start"}
     [] bk.step = "centre_selection" -> {"centre_jw", "Exit"}
     [] bk.step = "date_selection" -> {"date_today"}
     [] bk.step = "time_selection" -> {"tod_evening", "tod_morning", "slot_0", "2"}
     [] bk.step = "player_count" -> {"2", "start"}
     [] bk.step = "addons_selection" -> {"1"}
     [] bk.step = "collect_contact" -> {"Al"}
     [] bk.step = "payment" -> {"done"}
     [] OTHER -> {})

EventOutcomes == {"ok", "fail"}

\* a message the channel keeps for a later redelivery, and the _id of the
\* session it was recorded on
NoHeld == [pl |-> NoPayload, sid |-> 0]

\* two deliveries that arrived together: the payloads and the world they
\* arrived in
NoBurst == [on |-> FALSE, a |-> NoPayload, b |-> NoPayload, db |-> {}, nextId |-> 0]

\* the evaluation of one of the handler's functions on its own: which one,
\* its arguments and, once applied, its result
NoCalc == [op |-> "none"]

InitWorld ==
  /\ db = {}
  /\ nextId = 1
  /\ open = [d \in TrackedDates |-> TrackedSlots]
  /\ calDown = FALSE
  /\ procs = [h \in Handlers |-> IdleProc]
  /\ wh = IdleHook
  /\ held = NoHeld
  /\ links = {}
  /\ evc = [i \in 1..MaxDocs |-> 0]
  /\ burst = NoBurst
  /\ built = {}

Init == InitWorld /\ calc = NoCalc

\* built records, for the properties, the sessions whose stored catalog was
\* written since the session last arrived at its present step and date.
\* A handler at the catalog write of lines 346-350 (or 307-311) that did not
\* fail has written the catalog of the session of its sender.
Persisted(p, q) ==
  IF p.pc = "time_persist" /\ q.status # 500 THEN {findOne(db, p.from).id} \ {0} ELSE {}

BuiltAfter(d0, d1, persisted) ==
  {id \in built : /\ findById(d1, id).id # 0
                  /\ findById(d1, id).step = findById(d0, id).step
                  /\ findById(d1, id).date = findById(d0, id).date}
  \cup persisted

Apply(h, r) ==
  /\ procs' = [procs EXCEPT ![h] = r.p]
  /\ db' = r.w.db
  /\ nextId' = r.w.nextId
  /\ open' = r.w.open
  /\ links' = r.w.links
  /\ evc' = r.w.evc
  /\ built' = BuiltAfter(db, r.w.db, Persisted(procs[h], r.p))
  /\ UNCHANGED <<wh, calDown, held, burst, calc>>

Free(h) == procs[h].pc \in {"idle", "done"}

\* lines 26-58: a webhook delivery arrives and is parsed; a payload without
\* an actionable message is answered 200 at once
Receive(h, pl, redelivery) ==
  /\ Free(h)
  /\ findOne(db, pl.from).id # 0 \/ nextId <= MaxDocs
  /\ procs' = [procs EXCEPT ![h] =
       IF IsActionable(pl)
       THEN StartProc(pl, redelivery)
       ELSE Finish([IdleProc EXCEPT !.pl = pl], 200)]
  /\ UNCHANGED <<db, nextId, open, calDown, wh, held, links, evc, burst, calc, built>>

\* deliveries are handled one at a time
Deliver ==
  \E from \in Phones :
    \E tok \in UserTokens(findOne(db, from)) :
      /\ \A h \in Handlers : procs[h].pc = "idle"
      /\ Receive(1, Payload(FreshId, from, tok), FALSE)

\* a webhook without messages (a status notification), or a message that is
\* neither a reply nor a text (an image, a location)
DeliverOther ==
  \E from \in Phones :
    \E pl \in {NoPayload, Payload(FreshId, from, "")} :
      /\ \A h \in Handlers : procs[h].pc = "idle"
      /\ Receive(1, pl, FALSE)

\* the channel delivers the message it delivered last once more
Redeliver ==
  /\ procs[1].pc = "done" /\ procs[2].pc = "idle"
  /\ Receive(1, procs[1].pl, TRUE)

\* the response has been sent and the handler is gone
Return(h) ==
  /\ procs[h].pc = "done"
  /\ procs' = [procs EXCEPT ![h] = IdleProc]
  /\ UNCHANGED <<db, nextId, open, calDown, wh, held, links, evc, burst, calc, built>>

FindBooking(h) == procs[h].pc = "findOne" /\ Apply(h, StFindOne(procs[h], World))

CreateBooking(h) ==
  \/ procs[h].pc = "upsert" /\ Apply(h, StUpsert(procs[h], World))
  \/ procs[h].pc = "insert" /\ nextId <= MaxDocs /\ Apply(h, StInsert(procs[h], World))

Dedupe(h) == procs[h].pc = "guard" /\ Apply(h, StGuard(procs[h], World))

UniversalExit(h) == procs[h].pc = "cancel" /\ Apply(h, StCancel(procs[h], World))

SportSelection(h) == procs[h].pc = "sport" /\ Apply(h, StSport(procs[h], World))

CentreSelection(h) == procs[h].pc = "centre" /\ Apply(h, StCentre(procs[h], World))

DateSelection(h) ==
  \/ procs[h].pc = "date" /\ Apply(h, StDate(procs[h], World))
  \/ procs[h].pc = "date_write" /\ Apply(h, StDateWrite(procs[h], World))

TimeSelection(h) ==
  \/ procs[h].pc = "time" /\ Apply(h, StTime(procs[h], World))
  \/ procs[h].pc = "time_persist" /\ Apply(h, StTimePersist(procs[h], World))

SlotConfirm(h) ==
  \/ procs[h].pc = "time_check" /\ Apply(h, StTimeCheck(procs[h], World))
  \/ procs[h].pc = "time_refresh" /\ Apply(h, StTimeRefresh(procs[h], World))
  \/ procs[h].pc = "time_save" /\ Apply(h, StTimeSave(procs[h], World))

PlayerCount(h) == procs[h].pc = "players" /\ Apply(h, StPlayers(procs[h], World))

AddonsSelection(h) == procs[h].pc = "addons" /\ Apply(h, StAddons(procs[h], World))

CollectContact(h) == procs[h].pc = "contact" /\ Apply(h, StContact(procs[h], World))

Payment(h) ==
  \/ procs[h].pc = "payment" /\ Apply(h, StPayment(procs[h], World))
  \/ procs[h].pc = "pay_rollback" /\ Apply(h, StPayRollback(procs[h], World))
  \/ /\ procs[h].pc = "pay_event"
     /\ \E o \in EventOutcomes :
          /\ o = "ok" => evc[procs[h].bk.id] < MaxEvents
          /\ Apply(h, StPayEvent(procs[h], World, o))
  \/ procs[h].pc = "pay_save" /\ Apply(h, StPaySave(procs[h], World))

UnknownStep(h) == procs[h].pc = "default" /\ Apply(h, StDefault(procs[h], World))

FinalSave(h) == procs[h].pc = "final" /\ Apply(h, StFinal(procs[h], World))

ApplyHook(r) ==
  /\ wh' = r.p
  /\ db' = r.w.db
  /\ open' = r.w.open
  /\ evc' = r.w.evc
  /\ built' = BuiltAfter(db, r.w.db, {})
  /\ UNCHANGED <<procs, nextId, calDown, held, links, burst, calc>>

\* the gateway reports a payment for a link that was issued
PaymentLinkPaid ==
  /\ wh.pc = "idle"
  /\ \E ref \in links : ApplyHook(RzpPaid(wh, World, ref))

PaymentLinkEvent ==
  /\ wh.pc = "event"
  /\ \E o \in EventOutcomes :
       /\ o = "ok" => evc[wh.bk.id] < MaxEvents
       /\ ApplyHook(RzpEvent(wh, World, o))

\* another user or channel books a slot
TakeSlot ==
  /\ \E d \in DOMAIN open : \E s \in open[d] : open' = [open EXCEPT ![d] = @ \ {s}]
  /\ UNCHANGED <<db, nextId, calDown, procs, wh, held, links, evc, burst, calc, built>>

HandlerStep(h) ==
  \/ FindBooking(h) \/ CreateBooking(h) \/ Dedupe(h) \/ UniversalExit(h)
  \/ SportSelection(h) \/ CentreSelection(h) \/ DateSelection(h) \/ TimeSelection(h)
  \/ SlotConfirm(h) \/ PlayerCount(h) \/ AddonsSelection(h) \/ CollectContact(h)
  \/ Payment(h) \/ UnknownStep(h) \/ FinalSave(h)

Next ==
  \/ Deliver
  \/ DeliverOther
  \/ Redeliver
  \/ \E h \in Handlers : Return(h)
  \/ \E h \in Handlers : HandlerStep(h)
  \/ PaymentLinkPaid
  \/ PaymentLinkEvent
  \/ TakeSlot

Spec == Init /\ [][Next]_vars

TypeOK == \A b \in db : b.id \in 1..MaxDocs

(***************************************************************************)
(* Late redelivery: the channel delivers again a message it delivered      *)
(* before other messages (ids A, B, then A again)                          *)
(***************************************************************************)
\* the channel keeps the message just handled, whose id is now recorded on
\* the stored session
Hold ==
  /\ ~held.pl.hasMessage
  /\ procs[1].pc = "done" /\ ~procs[1].redelivery /\ procs[1].pl.hasMessage
  /\ LET s == findOne(db, procs[1].from)
     IN /\ s.id # 0 /\ s.meta.lastMessageId = procs[1].pl.id
        /\ held' = [pl |-> procs[1].pl, sid |-> s.id]
  /\ UNCHANGED <<db, nextId, open, calDown, procs, wh, links, evc, burst, calc, built>>

\* the kept message is delivered once more
RedeliverHeld ==
  /\ held.pl.hasMessage
  /\ \A h \in Handlers : procs[h].pc = "idle"
  /\ Receive(1, held.pl, TRUE)

ReplayNext ==
  \/ Deliver
  \/ Hold
  \/ RedeliverHeld
  \/ \E h \in Handlers : Return(h)
  \/ \E h \in Handlers : HandlerStep(h)
  \/ TakeSlot

ReplaySpec == Init /\ [][ReplayNext]_vars

(***************************************************************************)
(* Concurrent deliveries: Express runs one handler per request and the     *)
(* handlers interleave at every await                                      *)
(***************************************************************************)
\* the least message id, other than id, that nothing remembers
OtherFreshId(id) ==
  CHOOSE x \in MsgIds \ (UsedIds \cup {id}) :
    \A y \in MsgIds \ (UsedIds \cup {id}) : Number(Tail(x)) <= Number(Tail(y))

\* two deliveries for one identity arrive together: two messages sent in
\* quick succession, or (same) one message delivered twice
Burst ==
  /\ ~burst.on
  /\ \A h \in Handlers : procs[h].pc = "idle"
  /\ \E from \in Phones :
       LET s == findOne(db, from)
       IN /\ s.id # 0 \/ nextId + 1 <= MaxDocs
          /\ \E ta \in UserTokens(s), tb \in UserTokens(s), same \in BOOLEAN :
               LET a == Payload(FreshId, from, ta)
                   b == IF same THEN a ELSE Payload(OtherFreshId(a.id), from, tb)
               IN /\ same => ta = tb
                  /\ procs' = [procs EXCEPT ![1] = StartProc(a, FALSE),
                                            ![2] = StartProc(b, same)]
                  /\ burst' = [on |-> TRUE, a |-> a, b |-> b, db |-> db, nextId |-> nextId]
  /\ UNCHANGED <<db, nextId, open, calDown, wh, held, links, evc, calc, built>>

\* before the burst, deliveries are handled one at a time
DeliverAlone == ~burst.on /\ Deliver

\* the calendar does not change while the burst is handled
TakeSlotBefore == ~burst.on /\ TakeSlot

ConcNext ==
  \/ DeliverAlone
  \/ Burst
  \/ \E h \in Handlers : Return(h)
  \/ \E h \in Handlers : HandlerStep(h)
  \/ TakeSlotBefore

ConcSpec == Init /\ [][ConcNext]_vars

\* every result the step at p.pc can have in world w
StepResults(p, w) ==
  CASE p.pc = "findOne" -> {StFindOne(p, w)}
    [] p.pc = "upsert" -> {StUpsert(p, w)}
    [] p.pc = "insert" -> {StInsert(p, w)}
    [] p.pc = "guard" -> {StGuard(p, w)}
    [] p.pc = "cancel" -> {StCancel(p, w)}
    [] p.pc = "sport" -> {StSport(p, w)}
    [] p.pc = "centre" -> {StCentre(p, w)}
    [] p.pc = "date" -> {StDate(p, w)}
    [] p.pc = "date_write" -> {StDateWrite(p, w)}
    [] p.pc = "time" -> {StTime(p, w)}
    [] p.pc = "time_persist" -> {StTimePersist(p, w)}
    [] p.pc = "time_check" -> {StTimeCheck(p, w)}
    [] p.pc = "time_refresh" -> {StTimeRefresh(p, w)}
    [] p.pc = "time_save" -> {StTimeSave(p, w)}
    [] p.pc = "players" -> {StPlayers(p, w)}
    [] p.pc = "addons" -> {StAddons(p, w)}
    [] p.pc = "contact" -> {StContact(p, w)}
    [] p.pc = "payment" -> {StPayment(p, w)}
    [] p.pc = "pay_rollback" -> {StPayRollback(p, w)}
    [] p.pc = "pay_event" ->
         {StPayEvent(p, w, o) :
            o \in {x \in EventOutcomes : x = "ok" => w.evc[p.bk.id] < MaxEvents}}
    [] p.pc = "pay_save" -> {StPaySave(p, w)}
    [] p.pc = "default" -> {StDefault(p, w)}
    [] p.pc = "final" -> {StFinal(p, w)}
    [] OTHER -> {}

\* the handler run from p to its response with nothing else running: the
\* worlds it can end in
RECURSIVE RunAlone(_, _)
RunAlone(p, w) ==
  IF p.pc = "done" THEN {w}
  ELSE UNION {RunAlone(r.p, r.w) : r \in StepResults(p, w)}

\* the same run: the handlers at their response, each with the world it left
RECURSIVE RunResults(_, _)
RunResults(p, w) ==
  IF p.pc = "done" THEN {R(p, w)}
  ELSE UNION {RunResults(r.p, r.w) : r \in StepResults(p, w)}

\* payload a handled alone, then payload b handled alone
Serial(a, b, w) ==
  UNION {RunAlone(StartProc(b, FALSE), w1) : w1 \in RunAlone(StartProc(a, FALSE), w)}

(***************************************************************************)
(* Faults: a storage operation fails, the freebusy query fails              *)
(***************************************************************************)
\* the step of handler p with result r calls the store: the lookup of line
\* 61, or a step that writes
CallsStorage(p, w, r) == p.pc = "findOne" \/ r.w.db # w.db

\* the storage call of the handler's step rejects: the exception reaches the
\* catch of lines 551-554 (500), except in the closing save of line 549,
\* whose rejection is swallowed
StorageFailure(h, r) ==
  /\ CallsStorage(procs[h], World, r)
  /\ Apply(h, R(IF procs[h].pc = "final" THEN Finish(procs[h], 200) ELSE Throw(procs[h]),
               World))

\* a step of handler h: it goes through, or its storage call rejects
StepOrFailure(h) ==
  \E r \in StepResults(procs[h], World) :
    \/ Apply(h, r)
    \/ StorageFailure(h, r)

\* the channel delivers again a message whose delivery was answered 500
RedeliverFailed ==
  /\ procs[1].pc = "done" /\ procs[1].status = 500 /\ procs[2].pc = "idle"
  /\ Receive(2, procs[1].pl, TRUE)

\* from now on calendar.freebusy.query rejects (googleCalendar.js lines 79-82)
CalendarOutage ==
  /\ ~calDown
  /\ calDown' = TRUE
  /\ UNCHANGED <<db, nextId, open, procs, wh, held, links, evc, burst, calc, built>>

FaultNext ==
  \/ Deliver
  \/ RedeliverFailed
  \/ \E h \in Handlers : Return(h)
  \/ \E h \in Handlers : StepOrFailure(h)
  \/ TakeSlot
  \/ CalendarOutage

FaultSpec == Init /\ [][FaultNext]_vars

(***************************************************************************)
(* The handler's functions evaluated on their own: the arguments are drawn *)
(* by the initial state and one action applies the function to them        *)
(***************************************************************************)
world == <<db, nextId, open, calDown, procs, wh, held, links, evc, burst, built>>

\* a slot label as somebody may write it: start time, blanks, a dash of any
\* kind, blanks, end time
WrittenLabels ==
  LET Gaps == {"", " ", "   "}
      Dashes == {"-", EnDash, EmDash, MinusSign}
      Intervals == {[start |-> "10:00", end |-> "11:00"], [start |-> "18:00", end |-> "19:00"]}
  IN {c \in [start : {"10:00", "18:00"}, end : {"11:00", "19:00"}, g1 : Gaps, dash : Dashes, g2 : Gaps] :
        [start |-> c.start, end |-> c.end] \in Intervals}

Written(c) == c.start \o c.g1 \o c.dash \o c.g2 \o c.end

\* ordered lists of distinct normalized labels have up to MaxCatalog entries
MaxCatalog == 3

\* the arguments drawn for each function
CalcInputs(op) ==
  LET \* ordered lists of distinct normalized labels: a few hours, and the
      \* whole day (ids and indexes of two digits)
      hours == {6, 18, 19, 20}
      lists == UNION {[1..n -> hours] : n \in 1..MaxCatalog}
      distinct == {l \in lists : \A i, j \in 1..Len(l) : l[i] = l[j] => i = j}
      CatalogLists == {[i \in 1..Len(l) |-> SlotLabel(l[i])] : l \in distinct} \cup {CalendarTemplate}
      \* sessions waiting at the add-ons step: on their first way through the
      \* conversation, or on a later one with the fields of the earlier still set
      first == SetFields(NewBooking(1, "p1"),
                 [step |-> "addons_selection", sport |-> "Padel", centre |-> "JW Marriott",
                  date |-> Today, time_slot |-> SlotLabel(18)])
      again == SetFields(first,
                 [sport |-> "Pickleball", time_slot |-> SlotLabel(20), addons |-> <<"spa">>,
                  totalAmount |-> 2 * PricePerPlayer + SpaPrice, name |-> "Al"])
      AddonSessions == {SetFields(b, [players |-> n]) : b \in {first, again}, n \in {0, 1, 2, 4}}
      \* availability as the calendar side may report it: one or two evening
      \* intervals, each in some writing
      evening == {c \in WrittenLabels : c.start = "18:00" /\ c.g1 = c.g2 /\ c.dash \in {"-", EnDash}}
      late(c) == [c EXCEPT !.start = "20:00", !.end = "21:00"]
      ReportedLists == {<<c>> : c \in evening} \cup {<<c, late(d)>> : c \in evening, d \in evening}
                       \cup {<<late(d), c>> : c \in evening, d \in evening}
      \* inbound messages: a button reply, a list reply and a text body, each
      \* present or not, their ids, titles and body empty, plain or padded
      values == {"", "Ab", " c "}
      Payloads == {pl \in [hasMessage : {TRUE}, id : {"m1"}, from : {"p1"},
                           hasButton : BOOLEAN, buttonId : values, buttonTitle : values,
                           hasList : BOOLEAN, listId : values, listTitle : values,
                           text : values] :
                     /\ ~pl.hasButton => pl.buttonId = "" /\ pl.buttonTitle = ""
                     /\ ~pl.hasList => pl.listId = "" /\ pl.listTitle = ""}
      \* a session on its first way through the conversation, waiting at each
      \* of the steps of the switch, with the fields of the steps before it
      order == <<"sport_selection", "centre_selection", "date_selection", "time_selection",
                 "player_count", "addons_selection", "collect_contact", "payment">>
      offered == <<SlotLabel(18), SlotLabel(20)>>
      At(k) ==
        LET b1 == NewBooking(1, "p1")
            b2 == IF k > 1 THEN SetFields(b1, [sport |-> "Padel"]) ELSE b1
            b3 == IF k > 2 THEN SetFields(b2, [centre |-> "JW Marriott"]) ELSE b2
            b4 == IF k > 2 THEN SetMeta(b3, [otherWeeks |-> <<AddDays(Today, DaysPerWeek)>>,
                                             lastDateRows |-> <<Today>>]) ELSE b3
            b5 == IF k > 3 THEN SetMeta(SetFields(b4, [date |-> Today]),
                                        [currentSlots |-> offered, slotMap |-> BuildSlotMap(offered)])
                  ELSE b4
            b6 == IF k > 4 THEN SetFields(b5, [time_slot |-> SlotLabel(18)]) ELSE b5
            b7 == IF k > 5 THEN SetFields(b6, [players |-> 2]) ELSE b6
            b8 == IF k > 6 THEN SetFields(b7, [addons |-> <<"spa">>,
                                               totalAmount |-> 2 * PricePerPlayer + SpaPrice]) ELSE b7
            b9 == IF k > 7 THEN SetFields(b8, [name |-> "Al"]) ELSE b8
        IN SetFields(b9, [step |-> order[k]])
      StepSessions == {At(k) : k \in 1..Len(order)}
      Replies == {"hello", "x", "7", "0", "2", "players_2", "sport_padel", "centre_jw",
                  "date_today", "date_tomorrow", "date_2026-01-02", "week_9", "week_1",
                  "tod_evening", "slot_0", "slot_9", "20:00 - 21:00", "20:00  " \o EnDash \o " 21:00",
                  "constructor", "done", "pay"}
  IN CASE op = "normalizeSlot" ->
            [op : {op}, a : WrittenLabels, b : WrittenLabels, out : {<<>>}]
       [] op = "resolve" ->
            {c \in [op : {op}, labels : CatalogLists, i : 1..Len(CalendarTemplate), out : {<<>>}] :
               c.i <= Len(c.labels)}
       [] op = "price" ->
            [op : {op}, a : [bk : AddonSessions, msg : {"1", "2", "3", "4"}],
             b : [bk : AddonSessions, msg : {"1", "2", "3", "4"}], out : {<<>>}]
       [] op = "bucket" ->
            [op : {op}, msg : {"tod_morning", "tod_afternoon", "tod_evening"},
             reported : ReportedLists, out : {<<>>}]
       [] op = "repeated" ->
            [op : {op}, msg : {"tod_morning", "tod_evening"},
             reported : {<<c, d>> : c \in evening, d \in evening}
                        \cup {<<c, late(c), d>> : c \in evening, d \in evening},
             out : {<<>>}]
       [] op = "recheck" ->
            [op : {op}, msg : {"tod_evening"}, reported : ReportedLists, i : {1, 2}, out : {<<>>}]
       [] op = "token" ->
            [op : {op}, pl : Payloads, out : {<<>>}]
       [] op = "reply" ->
            [op : {op}, bk : StepSessions, msg : Replies, out : {<<>>}]
       [] op = "calendar" ->
            [op : {op}, bk : {At(3), At(4)},
             msg : {"date_today", "date_2026-01-01", "1", "2", "slot_0", "slot_1",
                    "tod_evening", "tod_morning"},
             free : SUBSET {SlotLabel(6), SlotLabel(17), SlotLabel(18), SlotLabel(19),
                            SlotLabel(20)},
             out : {<<>>}]

\* line 95 applied to two labels
NormalizePair ==
  /\ calc.op = "normalizeSlot" /\ calc.out = <<>>
  /\ calc' = [calc EXCEPT !.out = <<normalizeSlot(Written(calc.a)), normalizeSlot(Written(calc.b))>>]
  /\ UNCHANGED world

\* String(i)
NumberString(i) == IF i < 10 THEN Digit(i) ELSE TwoDigits(i)

\* lines 334-343 build the catalog of the labels; lines 375-398 resolve the
\* id generated for entry i, its 1-based index and its label
ResolveEntry ==
  /\ calc.op = "resolve" /\ calc.out = <<>>
  /\ LET meta == [EmptyMeta EXCEPT !.slotMap = BuildSlotMap(calc.labels),
                                   !.currentSlots = calc.labels]
     IN calc' = [calc EXCEPT !.out = <<ResolveChosen(meta, meta.slotMap[calc.i].id),
                                       ResolveChosen(meta, NumberString(calc.i)),
                                       ResolveChosen(meta, calc.labels[calc.i])>>]
  /\ UNCHANGED world

\* the totalAmount stored by the add-ons step for session x.bk and reply x.msg
StoredTotal(x) ==
  LET p == [StartProc(Payload("m1", x.bk.phone, x.msg), FALSE) EXCEPT !.bk = x.bk, !.pc = "addons"]
      r == StAddons(p, [World EXCEPT !.db = {x.bk}])
  IN findOne(r.w.db, x.bk.phone).totalAmount

\* lines 457-476 applied to two sessions
PriceSessions ==
  /\ calc.op = "price" /\ calc.out = <<>>
  /\ calc' = [calc EXCEPT !.out = <<StoredTotal(calc.a), StoredTotal(calc.b)>>]
  /\ UNCHANGED world

\* lines 246-343 for a bucket choice and the reported availability
BuildCatalog ==
  /\ calc.op \in {"bucket", "repeated", "recheck"} /\ calc.out = <<>>
  /\ LET slotsAvail == [i \in 1..Len(calc.reported) |-> Written(calc.reported[i])]
     IN calc' = [calc EXCEPT !.out = <<BuildSlotMap(BucketCatalog(calc.msg, slotsAvail))>>]
  /\ UNCHANGED world

\* entry i of the catalog just built is resolved (lines 375-380) and
\* rechecked twice against the same report: lines 415-416 and line 500
RecheckTwice ==
  /\ calc.op = "recheck" /\ Len(calc.out) = 1
  /\ LET slotsAvail == [k \in 1..Len(calc.reported) |-> Written(calc.reported[k])]
         meta == [EmptyMeta EXCEPT !.slotMap = calc.out[1],
                                   !.currentSlots = [k \in 1..Len(calc.out[1]) |-> calc.out[1][k].title]]
         chosen == ResolveChosen(meta, SlotId(calc.i - 1))
     IN calc' = [calc EXCEPT !.out = <<calc.out[1], chosen, TimeRecheck(slotsAvail, chosen),
                                       CommitRecheck(slotsAvail, chosen)>>]
  /\ UNCHANGED world

\* lines 41-57 applied to a payload: msg and msgLower
Interpret ==
  /\ calc.op = "token" /\ calc.out = <<>>
  /\ LET p == StartProc(calc.pl, FALSE)
     IN calc' = [calc EXCEPT !.out = <<p.msg, p.msgLower>>]
  /\ UNCHANGED world

\* the whole handler (lines 26-555) run alone for a stored session and a reply
HandleAlone ==
  /\ calc.op \in {"reply", "calendar"} /\ calc.out = <<>>
  /\ calc' = [calc EXCEPT !.out =
       <<RunResults(StartProc(Payload("m9", calc.bk.phone, calc.msg), FALSE),
                    [World EXCEPT !.db = {calc.bk}, !.nextId = calc.bk.id + 1,
                                  !.open = IF calc.op = "calendar"
                                           THEN [d \in TrackedDates |-> calc.free]
                                           ELSE @])>>]
  /\ UNCHANGED world

CalcInit ==
  InitWorld /\ \E op \in {"normalizeSlot", "resolve", "price", "bucket", "repeated", "recheck", "token", "reply", "calendar"} : calc \in CalcInputs(op)

CalcNext == NormalizePair \/ ResolveEntry \/ PriceSessions \/ BuildCatalog \/ Interpret
            \/ HandleAlone \/ RecheckTwice

CalcSpec == CalcInit /\ [][CalcNext]_vars

(***************************************************************************)
(* Two identities: each of two senders has one delivery handled, the two   *)
(* handlers running side by side on one store                              *)
(***************************************************************************)
\* the sender whose delivery handler h handles
Sender(h) == IF h = 1 THEN "p1" ELSE "p2"

\* the stores the two deliveries can find: for the first sender no session,
\* or a session waiting at one of the steps of the conversation; for the
\* second no session, or one waiting at the first step, at the slot catalog
\* or at the payment
PairStores ==
  LET waiting == {c.bk : c \in CalcInputs("reply")}
      first == {{}} \cup {{bk} : bk \in waiting}
      second(d) == {{}} \cup {{SetFields(bk, [id |-> Cardinality(d) + 1, phone |-> Sender(2)])} :
                                bk \in {b \in waiting : b.step \in {"sport_selection",
                                                                    "time_selection", "payment"}}}
  IN UNION {{d \cup e : e \in second(d)} : d \in first}

PairInit ==
  /\ db \in PairStores
  /\ nextId = Cardinality(db) + 1
  /\ open = [d \in TrackedDates |-> TrackedSlots]
  /\ calDown = FALSE
  /\ procs = [h \in Handlers |-> IdleProc]
  /\ wh = IdleHook
  /\ held = NoHeld
  /\ links = {}
  /\ evc = [i \in 1..MaxDocs |-> 0]
  /\ burst = NoBurst
  /\ built = {}
  /\ calc = NoCalc

\* lines 26-58: the delivery of a sender arrives at its handler
DeliverPair(h) ==
  /\ procs[h].pc = "idle"
  /\ \E tok \in UserTokens(findOne(db, Sender(h))) :
       Receive(h, Payload(FreshId, Sender(h), tok), FALSE)

\* lines 58-555: a handler takes its next step
PairStep(h) ==
  /\ procs[h].pc \notin {"idle", "done"}
  /\ \E r \in StepResults(procs[h], World) : Apply(h, r)

PairNext == \E h \in Handlers : DeliverPair(h) \/ PairStep(h)

PairSpec == PairInit /\ [][PairNext]_vars

(***************************************************************************)
(* Properties of the sequential handler (Spec)                             *)
(***************************************************************************)
Last(s) == s[Len(s)]

IsCancelToken(p) == p.msgLower = "cancel" \/ p.msgLower = "exit"

\* the stored session of a handler's sender
Session(d, p) == findOne(d, p.from)

\* C1: the same inbound message delivered twice in a row, whatever the session
\* state (no session included): the second delivery changes nothing and sends
\* nothing, so a finished redelivery has written nothing, called nothing and
\* replied nothing.
C1_RedeliveryDoesNothing ==
  \A h \in Handlers :
    (procs[h].redelivery /\ procs[h].pc = "done") => procs[h].log = <<>>

\* C3: Idempotency Guard. At the guard, when the stored last message id of
\* the session is non-empty and equals the inbound id, the handler ends there:
\* storage, calendar, payment links and events are untouched and nothing is
\* logged as written, called or sent; when the id differs, the id is on the
\* stored session after the guard and the step logic has not run yet.
C3_GuardContract ==
  [][\A h \in Handlers :
       (procs[h].pc = "guard" /\ procs'[h] # procs[h]) =>
         LET p == procs[h]
             stored == Session(db, p).meta.lastMessageId
         IN IF p.mid # "" /\ stored # "" /\ stored = p.mid
            THEN /\ db' = db /\ open' = open /\ links' = links /\ evc' = evc
                 /\ procs'[h].pc = "done" /\ procs'[h].status = 200
                 /\ procs'[h].log = <<>>
            ELSE /\ Session(db', p).id = Session(db, p).id
                 /\ Session(db', p).meta.lastMessageId = p.mid
                 /\ Session(db', p) = SetMeta(Session(db, p), [lastMessageId |-> p.mid])
                 /\ procs'[h].pc \in {"cancel", Dispatch(p.bk.step)}
                 /\ procs'[h].log = <<"db:mid">>]_vars

\* C3 witness: a redelivery of the message recorded on the session has been
\* absorbed
C3_Witness ==
  /\ procs[1].pc = "done" /\ procs[1].redelivery /\ procs[1].log = <<>>
  /\ findOne(db, procs[1].from).id # 0
  /\ findOne(db, procs[1].from).meta.lastMessageId = procs[1].mid
  /\ findOne(db, procs[1].from).step = "date_selection"

\* C7: universal cancel. A non-duplicate 'cancel' / 'exit' (any case) goes
\* from the guard straight to the universal exit, whatever the step; the exit
\* deletes the session and sends the cancellation acknowledgment; a message
\* of an identity without a session creates a fresh session at the sport
\* step with no booking field set.
C7_UniversalCancel ==
  [][\A h \in Handlers :
       LET p == procs[h]
           q == procs'[h]
       IN /\ (p.pc = "guard" /\ q # p /\ ~IsDuplicate(p) /\ IsCancelToken(p))
             => (q.pc = "cancel" /\ \A i \in 1..Len(q.log) : ~StartsWith(q.log[i], "send:"))
          /\ (p.pc = "cancel" /\ q # p)
             => /\ Session(db', p).id = 0
                /\ q.pc = "done" /\ q.status = 200
                /\ q.log = <<"db:mid", "db:delete", "send:cancelled">>
          /\ (p.pc = "findOne" /\ q # p /\ Session(db, p).id = 0) => q.pc = "upsert"
          /\ (p.pc = "upsert" /\ q # p /\ Session(db, p).id = 0) => q.pc = "insert"
          /\ (p.pc = "insert" /\ q # p)
             => /\ Session(db', p) = NewBooking(nextId, p.from)
                /\ Cardinality(Matching(db', p.from)) = 1
                /\ q.log = <<"db:upsert", "send:welcome">>]_vars

\* C7 witness: after a booking in progress was cancelled, the next message
\* has created a second, fresh session
C7_Witness ==
  /\ procs[1].pc = "done" /\ procs[1].log = <<"db:upsert", "send:welcome">>
  /\ ~procs[1].redelivery
  /\ db = {NewBooking(2, procs[1].from)}
  /\ nextId = 3

Committed(b) == b.paid \/ b.step = "completed"

SlotOpen(b) == b.date \in DOMAIN open /\ b.time_slot \in open[b.date]

PaymentPcs == {"payment", "pay_rollback", "pay_event", "pay_save"}

\* C4: slot-conflict safety. A stored session becomes paid / completed only
\* while its slot is still externally available: either the committing step
\* itself sees the slot available, or it is the save of a handler whose
\* recheck passed; and a handler's recheck passes only for an available
\* slot. This holds for the 'done' message and for the payment webhook.
C4_SlotConflictSafety ==
  [][/\ \A id \in 1..MaxDocs :
          LET old == findById(db, id)
              new == findById(db', id)
          IN (new.id # 0 /\ Committed(new) /\ ~Committed(old))
             => \/ SlotOpen(new)
                \/ \E h \in Handlers :
                     procs[h].pc = "pay_save" /\ procs[h].bk.id = id /\ procs'[h] # procs[h]
     /\ \A h \in Handlers :
          (procs[h].pc = "payment" /\ procs'[h].pc = "pay_event") => SlotOpen(procs[h].bk)]_vars

\* C5: paid goes from false to true once per session (it never reverts, so
\* it cannot be set a second time), only in the step that moves the session
\* to completed, and only by a transition that has rechecked availability.
C5_PaidOnceAtCommit ==
  [][\A id \in 1..MaxDocs :
       LET old == findById(db, id)
           new == findById(db', id)
       IN /\ (old.id # 0 /\ old.paid /\ new.id # 0) => new.paid
          /\ (new.id # 0 /\ new.paid /\ ~old.paid)
             => /\ new.step = "completed"
                /\ \E h \in Handlers :
                     /\ procs[h].pc = "pay_save" /\ procs[h].bk.id = id
                     /\ procs'[h] # procs[h]
                     /\ InSeq("cal:avail", procs[h].log)]_vars

\* C6: a handler working on a message received at the payment step (cancel
\* and exit never get there) leaves step, paid and the calendar event
\* reference of the stored session as they were, creates no calendar event,
\* and ends having sent the informational reply only.
C6_PaymentStepInformational ==
  [][\A h \in Handlers :
       (procs[h].pc \in PaymentPcs /\ procs'[h] # procs[h] /\ procs[h].msg # "payment_cancel")
       => LET s == Session(db, procs[h])
              t == Session(db', procs[h])
          IN /\ t.id = s.id /\ t.step = s.step /\ t.paid = s.paid
             /\ t.calendarEventId = s.calendarEventId
             /\ evc' = evc
             /\ procs'[h].pc = "done" => procs'[h].log = <<"db:mid", "send:payment_info">>]_vars

SportPrompts == {"send:welcome", "send:welcome_back", "send:sport_reprompt"}

IsStartToken(p) == p.msgLower = "start" \/ p.msgLower = "1"

\* C8: once a first delivery of 'start' or '1' has been handled, the identity
\* has exactly one stored session, it is at the sport step with every booking
\* field unset, and the last reply is a sport prompt.
C8_StartCommand ==
  \A h \in Handlers :
    (procs[h].pc = "done" /\ procs[h].status = 200 /\ ~procs[h].redelivery
       /\ IsStartToken(procs[h]))
    => LET s == Session(db, procs[h])
       IN /\ s.id # 0
          /\ Cardinality(Matching(db, procs[h].from)) = 1
          /\ SetMeta(s, [lastMessageId |-> ""]) = NewBooking(s.id, procs[h].from)
          /\ procs[h].log # <<>> /\ Last(procs[h].log) \in SportPrompts

(***************************************************************************)
(* Properties of late redelivery (ReplaySpec)                              *)
(***************************************************************************)
IsReplay(p) == p.redelivery /\ p.pl = held.pl

\* C2: a message id once recorded on a session is never applied again. When
\* the kept message is delivered again to the session it was recorded on,
\* after any other deliveries, the guard ends the handler: nothing is written
\* and nothing is sent.
C2_RecordedIdNeverReapplied ==
  [][\A h \in Handlers :
       (procs[h].pc = "guard" /\ IsReplay(procs[h]) /\ procs[h].bk.id = held.sid
          /\ procs'[h] # procs[h])
       => (procs'[h].pc = "done" /\ procs'[h].log = <<>> /\ db' = db)]_vars

(***************************************************************************)
(* Properties of concurrent deliveries (ConcSpec)                          *)
(***************************************************************************)
BurstHandled == burst.on /\ \A h \in Handlers : procs[h].pc \in {"done", "idle"}

\* the world the burst arrived in
BurstWorld == [World EXCEPT !.db = burst.db, !.nextId = burst.nextId]

\* the session without the bookkeeping of the last message id
Fields(b) == SetMeta(b, [lastMessageId |-> ""])

\* C9: per-identity serialization. Once two different deliveries (neither a
\* cancel) that arrived together for an identity that has a session have
\* both been handled, the stored session of the identity is, in every field
\* but the recorded message id, what handling one and then the other, in one
\* of the two orders, would have left.
C9_SerialEquivalence ==
  (/\ BurstHandled /\ burst.a.id # burst.b.id
   /\ findOne(burst.db, burst.a.from).id # 0
   /\ ToLowerCase(CanonicalToken(burst.a)) \notin {"cancel", "exit"}
   /\ ToLowerCase(CanonicalToken(burst.b)) \notin {"cancel", "exit"})
  => Fields(findOne(db, burst.a.from)) \in
       {Fields(findOne(w.db, burst.a.from)) :
          w \in Serial(burst.a, burst.b, BurstWorld) \cup Serial(burst.b, burst.a, BurstWorld)}

\* C10: concurrent redelivery. When one message of an identity that has a
\* session is delivered twice at once, at most one of the two handlers gets
\* past the guard (records the id and goes on to the step logic), and when
\* both have answered, one of them has written and sent nothing.
C10_OneDeliveryPassesGuard ==
  (burst.on /\ burst.a.id = burst.b.id /\ findOne(burst.db, burst.a.from).id # 0)
  => /\ \E h \in Handlers : ~InSeq("db:mid", procs[h].log)
     /\ (\A h \in Handlers : procs[h].pc = "done") => \E h \in Handlers : procs[h].log = <<>>

(***************************************************************************)
(* Further properties of the sequential handler (Spec)                     *)
(***************************************************************************)
\* C11: ordering of the guard. Whatever a handler has done for its message
\* (storage write, session creation, reply, availability query, calendar
\* event), the first thing it did was to record the message id.
C11_GuardBeforeSideEffects ==
  \A h \in Handlers : procs[h].log # <<>> => procs[h].log[1] = "db:mid"

\* C16: a reply resolved to a catalog slot is checked against the
\* availability of the session's date as it is at that moment, under
\* normalized comparison: if the slot is there, the session is stored with
\* time_slot set to it and step player_count; if it is not, the stored step
\* and time_slot stay as they were.
C16_SlotConfirmRecheck ==
  [][\A h \in Handlers :
       LET p == procs[h]
           q == procs'[h]
           now == NormalizeAll(getAvailableSlotsForDate(open, Session(db, p).date, calDown))
           present == InSeq(normalizeSlot(p.chosen), now)
           Same(a, b) == a.step = b.step /\ a.time_slot = b.time_slot
       IN /\ (p.pc = "time_check" /\ q # p)
             => /\ Same(Session(db', p), Session(db, p))
                /\ q.pc = IF present THEN "time_save" ELSE "time_refresh"
          /\ (p.pc = "time_save" /\ q # p)
             => /\ Session(db', p).time_slot = p.chosen
                /\ Session(db', p).step = "player_count"
          /\ (p.pc = "time_refresh" /\ q # p)
             => Same(Session(db', p), Session(db, p))
          /\ (p.pc = "time" /\ q # p /\ Session(db, p).step = "time_selection"
                /\ Session(db', p).step = "player_count") => FALSE]_vars

\* C16 witness: slot_0 was resolved to 18:00 - 19:00, found available, and
\* the session advanced to the player count
C16_Witness ==
  /\ procs[1].pc = "done" /\ procs[1].msg = "slot_0"
  /\ procs[1].log # <<>> /\ Last(procs[1].log) = "send:players_prompt"
  /\ Session(db, procs[1]).time_slot = SlotLabel(18)
  /\ Session(db, procs[1]).step = "player_count"

\* the slot of session b is in the availability of its date as it is now
Listed(b) == InSeq(b.time_slot, getAvailableSlotsForDate(open, b.date, calDown))

ReselectSteps == {"date_selection", "time_selection"}

\* C17: a commit attempted while the session's slot is no longer listed (the
\* 'done' message at the payment step, or the gateway's payment event for
\* the session's link) leaves paid false, creates no calendar event, leaves
\* the event reference unset, puts the session back at a step where the date
\* or the time is chosen again, and sends the conflict message.
C17_CommitRecheckFailure ==
  [][/\ \A h \in Handlers :
          LET p == procs[h]
              q == procs'[h]
              new == Session(db', p)
          IN /\ (p.pc = "payment" /\ IsDone(p) /\ q # p /\ ~Listed(Session(db, p)))
                => /\ q.pc = "pay_rollback" /\ InSeq("send:slot_taken", q.log)
                   /\ db' = db /\ evc' = evc
             /\ (p.pc = "pay_rollback" /\ q # p)
                => /\ ~new.paid /\ new.calendarEventId = "" /\ new.step \in ReselectSteps
                   /\ evc' = evc
     /\ \A id \in 1..MaxDocs :
          LET old == findById(db, id)
              new == findById(db', id)
          IN (wh.pc = "idle" /\ wh'.pc = "event" /\ wh'.bk.id = id /\ ~old.paid /\ ~Listed(old))
             => ~new.paid /\ new.calendarEventId = "" /\ new.step \in ReselectSteps]_vars

\* the steps the handler's switch knows, and the step of a committed booking
Steps ==
  {"sport_selection", "centre_selection", "date_selection", "time_selection",
   "player_count", "addons_selection", "collect_contact", "payment", "completed"}

\* C18: every stored session has one of the handler's steps, and the session
\* which a handler has just created for an identity that had none is at the
\* sport step.
C18_StepInFixedSet ==
  /\ \A b \in db : b.step \in Steps
  /\ \A h \in Handlers :
       (procs[h].pc = "done" /\ procs[h].log = <<"db:upsert", "send:welcome">>)
       => /\ Session(db, procs[h]).id # 0
          /\ Session(db, procs[h]).step = "sport_selection"

\* C18 witness: the first message of an identity has created its session,
\* the only one stored
C18_Witness ==
  /\ procs[1].pc = "done" /\ procs[1].log = <<"db:upsert", "send:welcome">>
  /\ Cardinality(db) = 1
  /\ \A b \in db : b.phone = procs[1].from /\ b.step = "sport_selection"

\* C19: a reply is resolved to a slot only against a catalog that was built
\* since the session last arrived at the time step for its present date:
\* never against the catalog left from an earlier date, or from an earlier
\* visit to the time step.
C19_NoStaleCatalog ==
  [][\A h \in Handlers :
       (procs[h].pc = "time" /\ procs'[h].pc = "time_check")
       => Session(db, procs[h]).id \in built]_vars

\* C21: the calendar event reference of a stored session is written only by
\* a transition whose commit recheck succeeded (the save of a handler that
\* queried availability and found the slot), and a session with the
\* reference set is paid.
C21_EventRefOnlyAfterCommit ==
  [][\A id \in 1..MaxDocs :
       LET old == findById(db, id)
           new == findById(db', id)
       IN /\ (new.id # 0 /\ new.calendarEventId # "") => new.paid
          /\ (new.id # 0 /\ new.calendarEventId # "" /\ old.calendarEventId = "")
             => \E h \in Handlers :
                  /\ procs[h].pc = "pay_save" /\ procs[h].bk.id = id
                  /\ procs'[h] # procs[h]
                  /\ InSeq("cal:avail", procs[h].log)
                  /\ InSeq("cal:event", procs[h].log)]_vars

\* C24: at commit, after the recheck of 'done' succeeded, a failing
\* createEvent does not abort the handler: paid and step completed are set
\* and the event reference is left alone; the save stores paid = TRUE and step
\* completed, leaves the stored reference as it was and is followed by the
\* confirmation; the handler then answers 200.  The webhook's failing
\* createEvent likewise writes nothing and ends the run.
C24_EventFailureNonFatal ==
  [][/\ \A h \in Handlers :
          LET p == procs[h]
              q == procs'[h]
          IN /\ (p.pc = "pay_event" /\ q # p)
                => /\ q.pc = "pay_save" /\ q.bk.paid /\ q.bk.step = "completed"
                   /\ q.log = p.log => q.bk.calendarEventId = p.bk.calendarEventId
             /\ (p.pc = "pay_save" /\ q # p /\ ~InSeq("cal:event", p.log))
                => /\ q.pc = "done" /\ q.status = 200 /\ Last(q.log) = "send:confirmed"
                   /\ Session(db', p).paid /\ Session(db', p).step = "completed"
                   /\ Session(db', p).calendarEventId = Session(db, p).calendarEventId
     /\ (wh.pc = "event" /\ wh' # wh /\ evc' = evc) => (wh'.pc = "idle" /\ db' = db)]_vars

\* a handler has confirmed a booking whose event was not created
C24_Witness ==
  /\ procs[1].pc = "done" /\ procs[1].status = 200
  /\ InSeq("send:confirmed", procs[1].log) /\ ~InSeq("cal:event", procs[1].log)
  /\ Session(db, procs[1]).paid /\ Session(db, procs[1]).step = "completed"
  /\ Session(db, procs[1]).calendarEventId = ""

\* C26: a delivery whose payload carries no message, or a message without
\* button reply, list reply and non-empty text body, is answered at once:
\* its handler never leaves the filter, writes and sends nothing, and the
\* store, the calendar and the payment links are as before.
C26_NoActionableMessage ==
  [][\A h \in Handlers :
       LET pl == procs'[h].pl
       IN (~pl.hasMessage \/ (~pl.hasButton /\ ~pl.hasList /\ pl.text = ""))
          => /\ procs'[h].pc \in {"idle", "done"} /\ procs'[h].log = <<>>
             /\ (procs'[h] # procs[h] /\ procs'[h].pc = "done")
                => /\ procs'[h].status = 200
                   /\ UNCHANGED <<db, nextId, open, links, evc, built>>]_vars

\* a message without reply and text was answered while a session is stored
C26_Witness ==
  /\ procs[1].pc = "done" /\ procs[1].status = 200 /\ procs[1].log = <<>>
  /\ procs[1].pl.hasMessage /\ procs[1].pl.text = "" /\ procs[1].pl.id # ""
  /\ \E b \in db : b.phone = procs[1].pl.from /\ b.meta.lastMessageId # procs[1].pl.id

\* C27: a message that is no cancel and is not dropped as a duplicate, for a
\* session whose step is none of the eight handled ones, reaches the default
\* of the switch; the default stores step sport_selection, sends the sport
\* prompt and the handler answers 200 with the stored step still
\* sport_selection.
C27_DefensiveRecovery ==
  [][\A h \in Handlers :
       LET p == procs[h]
           q == procs'[h]
           handled == {"sport_selection", "centre_selection", "date_selection",
                       "time_selection", "player_count", "addons_selection",
                       "collect_contact", "payment"}
       IN /\ (p.pc = "guard" /\ q # p /\ q.pc # "done" /\ ~IsCancelToken(p)
                /\ p.bk.step \notin handled)
             => q.pc = "default"
          /\ (p.pc = "default" /\ q # p)
             => /\ q.pc = "done" /\ q.status = 200
                /\ Last(q.log) = "send:welcome_back"
                /\ Session(db', p).step = "sport_selection"]_vars

\* a completed session was sent back to the sport step
C27_Witness ==
  /\ procs[1].pc = "done" /\ procs[1].status = 200
  /\ procs[1].log = <<"db:mid", "db:update", "send:welcome_back">>
  /\ Session(db, procs[1]).step = "sport_selection" /\ Session(db, procs[1]).paid

\* C29: a bucket choice for a date none of whose reported slots lies in the
\* bucket.  When the date has reported slots, the catalog is made of exactly
\* these, each once, it is stored and offered after the notice that the
\* bucket was empty; when it has none, nothing is stored and the replies are
\* the 'no slots' notice and the time-of-day prompt.  Either way the stored
\* step and time_slot stay as they were.
C29_GracefulWidening ==
  [][\A h \in Handlers :
       LET p == procs[h]
           q == procs'[h]
           reported == IF p.bk.date \in DOMAIN open THEN open[p.bk.date] ELSE {}
           hours == CASE p.msg = "tod_morning" -> 6..11
                      [] p.msg = "tod_afternoon" -> 12..16
                      [] OTHER -> 17..21
           bucket == {SlotLabel(i) : i \in hours}
       IN /\ (p.pc = "time" /\ IsTod(p.msg) /\ q # p /\ reported \cap bucket = {})
             => IF reported # {}
                THEN /\ q.pc = "time_persist" /\ q.widened
                     /\ {q.slots[i] : i \in 1..Len(q.slots)} = reported
                     /\ Len(q.slots) = Cardinality(reported)
                     /\ db' = db
                ELSE /\ q.pc = "done" /\ q.status = 200 /\ db' = db
                     /\ SubSeq(q.log, Len(q.log) - 1, Len(q.log)) = <<"send:no_slots", "send:tod_prompt">>
          /\ (p.pc = "time_persist" /\ p.widened /\ q # p)
             => /\ q.pc = "done" /\ q.status = 200
                /\ InSeq("send:bucket_empty", q.log) /\ Last(q.log) = "send:slots_list"
                /\ Session(db', p).meta.currentSlots = p.slots
                /\ Session(db', p).step = Session(db, p).step
                /\ Session(db', p).time_slot = Session(db, p).time_slot]_vars

\* the morning was chosen for a date with evening slots only: the day's slots
\* were offered
C29_Witness ==
  /\ procs[1].pc = "done" /\ procs[1].msg = "tod_morning"
  /\ InSeq("send:bucket_empty", procs[1].log)
  /\ Session(db, procs[1]).step = "time_selection"
  /\ Session(db, procs[1]).meta.currentSlots # <<>>

\* the steps in the order of the conversation; Position is 0 for any other
StepOrder ==
  <<"sport_selection", "centre_selection", "date_selection", "time_selection",
    "player_count", "addons_selection", "collect_contact", "payment", "completed">>

Position(step) ==
  IF \E i \in 1..Len(StepOrder) : StepOrder[i] = step
  THEN CHOOSE i \in 1..Len(StepOrder) : StepOrder[i] = step
  ELSE 0

\* C34: whenever the step of a stored session changes (by a handler of the
\* conversation or by the payment webhook) it moves one position forward in
\* the order of the conversation, or from payment back to date or time
\* selection, or from a step the switch does not handle to the sport step;
\* and it becomes completed only from payment with sport, centre, date,
\* time_slot, players and name set.
C34_StepOrdering ==
  [][\A id \in 1..MaxDocs :
       LET old == findById(db, id)
           new == findById(db', id)
       IN (old.id # 0 /\ new.id # 0 /\ new.step # old.step)
          => /\ \/ Position(new.step) = Position(old.step) + 1
                \/ old.step = "payment" /\ new.step \in ReselectSteps
                \/ Position(old.step) \notin 1..8 /\ new.step = "sport_selection"
             /\ new.step = "completed"
                => /\ old.step = "payment"
                   /\ new.sport # "" /\ new.centre # "" /\ new.date # ""
                   /\ new.time_slot # "" /\ new.players # 0 /\ new.name # ""]_vars

\* C38: a stored session that is paid is at the step completed.
C38_PaidIsCompleted ==
  \A b \in db : b.paid => b.step = "completed"

\* C39: no booking has more than one calendar event, and neither a handler
\* of 'done' nor the payment webhook arrives at its createEvent call for a
\* booking for which an event was created already.
C39_OneEventPerBooking ==
  /\ \A id \in 1..MaxDocs : evc[id] <= 1
  /\ \A h \in Handlers : procs[h].pc = "pay_event" => evc[procs[h].bk.id] = 0
  /\ wh.pc = "event" => evc[wh.bk.id] = 0

(***************************************************************************)
(* Further properties of concurrent deliveries (ConcSpec)                  *)
(***************************************************************************)
\* C20: the store never holds two sessions of one identity, also after two
\* first messages of an identity without a session were handled together.
C20_OneSessionPerIdentity ==
  \A from \in Phones : Cardinality(Matching(db, from)) <= 1

(***************************************************************************)
(* Properties under faults (FaultSpec)                                     *)
(***************************************************************************)
\* the storage writes a handler has made, the recording of the message id
\* apart
FieldWrites(p) ==
  {i \in 1..Len(p.log) : p.log[i] \in {"db:upsert", "db:delete", "db:save", "db:update"}}

\* C22: a handler that answers 500 has written no step and no booking field,
\* and when the channel delivers the same message again after a 500, the
\* redelivery is processed as a message and not answered as a duplicate.
C22_StorageFailureUndone ==
  /\ \A h \in Handlers : procs[h].status = 500 => FieldWrites(procs[h]) = {}
  /\ (/\ procs[1].pc = "done" /\ procs[1].status = 500
      /\ procs[2].pc = "done" /\ procs[2].status = 200
      /\ procs[2].redelivery /\ procs[2].pl = procs[1].pl)
     => procs[2].log # <<>>

\* C23: while the availability query fails, no handler offers a catalog
\* (a bucket choice is not followed by the catalog write), no resolved slot
\* passes the final check of time_selection, and no 'done' passes the
\* recheck of payment
C23_FailedQueryIsNoAvailability ==
  [][calDown => \A h \in Handlers :
       /\ ~(procs[h].pc = "time" /\ IsTod(procs[h].msg) /\ procs'[h].pc = "time_persist")
       /\ ~(procs[h].pc = "time_check" /\ procs'[h].pc = "time_save")
       /\ ~(procs[h].pc = "payment" /\ procs'[h].pc = "pay_event")]_vars

(***************************************************************************)
(* Properties of the handler's functions (CalcSpec)                        *)
(***************************************************************************)
\* C12: two writings of one interval, which differ only in the blanks around
\* the dash and in the kind of dash, have the same normalized label.
C12_NormalizeCanonical ==
  (calc.op = "normalizeSlot" /\ calc.out # <<>>
     /\ calc.a.start = calc.b.start /\ calc.a.end = calc.b.end)
  => calc.out[1] = calc.out[2]

\* C13: in a catalog built from an ordered list of distinct normalized
\* labels, the id generated for entry i, the 1-based index i written in
\* digits and the label of entry i all resolve to that label.
C13_ResolutionRoundTrip ==
  (calc.op = "resolve" /\ calc.out # <<>>)
  => LET l == calc.labels[calc.i] IN calc.out = <<l, l, l>>

\* the second of three entries, and the eleventh of the whole day, resolved
C13_Witness ==
  /\ calc.op = "resolve" /\ calc.out # <<>>
  /\ \/ Len(calc.labels) = 3 /\ calc.i = 2 /\ calc.out[2] = calc.labels[2]
     \/ calc.i = 11 /\ calc.out[1] = SlotLabel(16)

\* C14: the total stored by the add-ons step depends on the session's player
\* count and on the chosen add-on alone: two sessions with the same player
\* count and the same choice are stored the same total, whatever their other
\* fields and whatever was stored before.
C14_PricingDeterminism ==
  (calc.op = "price" /\ calc.out # <<>>
     /\ calc.a.bk.players = calc.b.bk.players /\ calc.a.msg = calc.b.msg)
  => calc.out[1] = calc.out[2]

\* two players with the spa, priced for a first booking and for a session
\* that had a total stored before
C14_Witness ==
  /\ calc.op = "price" /\ calc.out = <<2 * PricePerPlayer + SpaPrice, 2 * PricePerPlayer + SpaPrice>>
  /\ calc.a.bk.players = 2 /\ calc.b.bk.players = 2
  /\ calc.a.bk.totalAmount = 0 /\ calc.b.bk.totalAmount # 0

\* C15: when some reported slot denotes a template interval of the chosen
\* bucket, the catalog built for the bucket has exactly one entry for each
\* such reported slot, whatever blanks and dash the report writes it with.
C15_BucketCatalogContent ==
  (calc.op = "bucket" /\ calc.out # <<>>)
  => LET Denotes(c, t) == t = c.start \o " - " \o c.end
         inBucket == {i \in 1..Len(calc.reported) :
                        \E k \in 1..Len(TemplateSlots(calc.msg)) :
                          Denotes(calc.reported[i], TemplateSlots(calc.msg)[k])}
     IN inBucket # {} => Len(calc.out[1]) = Cardinality(inBucket)

\* C25: the token of a payload is the first non-empty value among list-reply
\* id, button-reply id, list-reply title, button-reply title and text body in
\* this order ("" when there is none), trimmed; the comparison form is its
\* lower-cased copy; computing them changes nothing else.
C25_TokenResolutionOrder ==
  [][(calc.op = "token" /\ calc'.out # <<>>)
     => LET pl == calc.pl
            order == <<pl.listId, pl.buttonId, pl.listTitle, pl.buttonTitle, pl.text>>
            present == SelectSeq(order, LAMBDA v : v # "")
            first == IF present = <<>> THEN "" ELSE Head(present)
        IN /\ calc'.out[1] = Trim(first)
           /\ calc'.out[2] = ToLowerCase(Trim(first))
           /\ UNCHANGED world]_vars

\* a button id wins over a list title and a text body and is lower-cased
C25_Witness ==
  /\ calc.op = "token" /\ calc.out = <<"Ab", "ab">>
  /\ calc.pl.listId = "" /\ calc.pl.buttonId = "Ab"
  /\ calc.pl.listTitle = " c " /\ calc.pl.text = " c "

\* C28: at each step of the switch, a reply that is none of the values the
\* step expects (and no cancel) is answered with a prompt and 200, and the
\* stored session keeps its step and every booking field.  The expected
\* values: a sport id or keyword; a centre id; today, this week, other
\* dates, an offered week, an offered date or a date written out; a time
\* of day or an entry of the catalog; a players id or a number; one of the
\* four add-on choices; a name of two characters or more; done or cancel
\* of the payment.
C28_InvalidInputNoChange ==
  (calc.op = "reply" /\ calc.out # <<>>)
  => LET bk == calc.bk
         msg == calc.msg
         lower == ToLowerCase(msg)
         rest == SubSeq(msg, 6, Len(msg))
         labels == bk.meta.currentSlots
         expected ==
           CASE bk.step = "sport_selection" ->
                  msg \in {"sport_pickleball", "sport_padel"}
                  \/ Includes(lower, "pickle") \/ Includes(lower, "padel")
             [] bk.step = "centre_selection" -> msg \in {"centre_jw", "centre_taj", "centre_itc"}
             [] bk.step = "date_selection" ->
                  \/ msg \in {"date_today", "date_this_week", "date_other"}
                  \/ StartsWith(msg, "week_") /\ IsDigits(rest)
                       /\ Number(rest) \in 1..Len(bk.meta.otherWeeks)
                  \/ StartsWith(msg, "date_") /\ IsIsoDate(rest)
                  \/ IsDigits(msg) /\ Number(msg) \in 1..Len(bk.meta.lastDateRows)
             [] bk.step = "time_selection" ->
                  \/ IsTod(msg)
                  \/ \E i \in 1..Len(labels) :
                        \/ msg = SlotId(i - 1) \/ msg = NumberString(i) \/ msg = labels[i]
                        \/ normalizeSlot(msg) = normalizeSlot(labels[i])
             [] bk.step = "player_count" ->
                  msg \in {"players_2", "players_3", "players_4"} \/ IsDigits(msg)
             [] bk.step = "addons_selection" -> msg \in {"1", "2", "3", "4"}
             [] bk.step = "collect_contact" -> Len(msg) >= 2
             [] bk.step = "payment" ->
                  msg \in {"payment_done", "payment_cancel"} \/ lower \in {"paid", "done"}
     IN (~expected /\ lower \notin {"cancel", "exit"})
        => \A r \in calc.out[1] :
             /\ r.p.status = 200
             /\ \E i \in 1..Len(r.p.log) : StartsWith(r.p.log[i], "send:")
             /\ Fields(findOne(r.w.db, bk.phone)) = Fields(bk)

\* C30: a reply at time_selection that is no bucket choice (and no cancel),
\* for a session with a stored catalog whose slots are all still free.  It
\* is resolved by the first of: the catalog id, the 1-based index, the label
\* itself, the label equal to it after normalization; the resolved label
\* becomes the time_slot.  A reply that matches none of the four is answered
\* with the invalid-selection prompt, without an availability query, and the
\* session keeps its step and time_slot.
C30_CatalogResolutionOrder ==
  (calc.op = "reply" /\ calc.out # <<>> /\ calc.bk.step = "time_selection"
     /\ ~IsTod(calc.msg) /\ ToLowerCase(calc.msg) \notin {"cancel", "exit"})
  => LET msg == calc.msg
         labels == calc.bk.meta.currentSlots
         Norm(x) == ToLowerCase(normalizeSlot(x))
         byId == {i \in 1..Len(labels) : msg = SlotId(i - 1)}
         byIndex == {i \in 1..Len(labels) : msg = NumberString(i)}
         byLabel == {i \in 1..Len(labels) : msg = labels[i]}
         byNorm == {i \in 1..Len(labels) : Norm(msg) = Norm(labels[i])}
         Min(S) == CHOOSE i \in S : \A j \in S : i <= j
         match == IF byId # {} THEN Min(byId)
                  ELSE IF byIndex # {} THEN Min(byIndex)
                  ELSE IF byLabel # {} THEN Min(byLabel)
                  ELSE IF byNorm # {} THEN Min(byNorm)
                  ELSE 0
     IN \A r \in calc.out[1] :
          LET s == findOne(r.w.db, calc.bk.phone)
          IN IF match # 0
             THEN s.time_slot = labels[match] /\ s.step = "player_count"
             ELSE /\ r.p.status = 200 /\ r.p.log # <<>> /\ Last(r.p.log) = "send:invalid"
                  /\ ~InSeq("cal:avail", r.p.log)
                  /\ s.step = calc.bk.step /\ s.time_slot = calc.bk.time_slot

\* the slot a reply names in the catalog of session bk ("" when none)
Named(bk, msg) ==
  LET labels == bk.meta.currentSlots
      hit == {i \in 1..Len(labels) : msg \in {SlotId(i - 1), NumberString(i), labels[i]}}
  IN IF hit = {} THEN "" ELSE labels[CHOOSE i \in hit : TRUE]

\* C31: a reply at time_selection names a catalog slot that is no longer
\* free.  The stored step and time_slot stay, the conflict is reported, and
\* the stored catalog afterwards lists free slots only, with the ids slot_0,
\* slot_1, ... in order, and is not empty when the date has a free slot.
C31_ConflictRebuild ==
  (calc.op = "calendar" /\ calc.out # <<>> /\ calc.bk.step = "time_selection"
     /\ Named(calc.bk, calc.msg) # "" /\ Named(calc.bk, calc.msg) \notin calc.free)
  => \A r \in calc.out[1] :
       LET s == findOne(r.w.db, calc.bk.phone)
           labels == s.meta.currentSlots
       IN /\ s.step = "time_selection" /\ s.time_slot = calc.bk.time_slot
          /\ InSeq("send:slot_taken", r.p.log)
          /\ \A i \in 1..Len(labels) : labels[i] \in calc.free
          /\ Len(s.meta.slotMap) = Len(labels)
          /\ \A i \in 1..Len(labels) :
                s.meta.slotMap[i] = [id |-> SlotId(i - 1), title |-> labels[i]]
          /\ calc.free # {} => labels # <<>>

\* C32: a session leaves date_selection for time_selection with a date only
\* when, in the handling of that reply, the availability of the date was
\* queried and was not empty.
C32_DateNeedsAvailability ==
  (calc.op = "calendar" /\ calc.out # <<>> /\ calc.bk.step = "date_selection")
  => \A r \in calc.out[1] :
       LET s == findOne(r.w.db, calc.bk.phone)
       IN s.step = "time_selection"
          => /\ s.date # ""
             /\ InSeq("cal:avail", r.p.log)
             /\ calc.free # {}

\* C33: after a reply at date_selection the stored date is empty, today's
\* date, one of the dates offered to the session, or a date written as
\* YYYY-MM-DD; and a reply that starts with date_ but names neither leaves
\* the stored date and step as they were.
C33_StoredDateWellFormed ==
  (calc.op = "reply" /\ calc.out # <<>> /\ calc.bk.step = "date_selection")
  => \A r \in calc.out[1] :
       LET s == findOne(r.w.db, calc.bk.phone)
           rest == SubSeq(calc.msg, 6, Len(calc.msg))
           offered == {calc.bk.meta.lastDateRows[i] : i \in 1..Len(calc.bk.meta.lastDateRows)}
       IN /\ s.date \in {"", Today} \cup offered \/ IsIsoDate(s.date)
          /\ (StartsWith(calc.msg, "date_")
                /\ calc.msg \notin {"date_today", "date_this_week", "date_other"}
                /\ rest \notin offered /\ ~IsIsoDate(rest))
             => s.date = calc.bk.date /\ s.step = calc.bk.step

\* C36: a time of day chosen at time_selection is answered with the catalog
\* just stored: as buttons when it has at most three entries, as a list when
\* it has more, whether the catalog holds the slots of the chosen time of
\* day or, none of those being free, the other free slots of the date.
C36_ReplyShape ==
  (calc.op = "calendar" /\ calc.out # <<>> /\ calc.bk.step = "time_selection" /\ IsTod(calc.msg))
  => \A r \in calc.out[1] :
       LET s == findOne(r.w.db, calc.bk.phone)
           sent == {"send:slots_buttons", "send:slots_list"}
                     \cap {r.p.log[i] : i \in 1..Len(r.p.log)}
       IN sent # {}
          => sent = IF Len(s.meta.currentSlots) <= 3 THEN {"send:slots_buttons"}
                    ELSE {"send:slots_list"}

\* the catalog of a session: its map has the keys slot_0, slot_1, ... in
\* order, slot_i for the i-th label, and no label is listed twice
CatalogWellFormed(slotMap, labels) ==
  /\ Len(slotMap) = Len(labels)
  /\ \A i \in 1..Len(labels) : slotMap[i] = [id |-> SlotId(i - 1), title |-> labels[i]]
  /\ \A i, j \in 1..Len(labels) : labels[i] = labels[j] => i = j

\* C37: the catalog built for a time of day from a reported availability
\* (bucket build or widened build), a slot reported twice or not, is well
\* formed, and so is the catalog
\* stored after any reply at time_selection: a time of day (bucket build,
\* widened build) or a slot that is no longer free (conflict rebuild).
C37_CatalogWellFormed ==
  /\ (calc.op \in {"bucket", "repeated"} /\ calc.out # <<>>)
     => CatalogWellFormed(calc.out[1], [i \in 1..Len(calc.out[1]) |-> calc.out[1][i].title])
  /\ (calc.op = "calendar" /\ calc.out # <<>> /\ calc.bk.step = "time_selection")
     => \A r \in calc.out[1] :
          LET s == findOne(r.w.db, calc.bk.phone)
          IN CatalogWellFormed(s.meta.slotMap, s.meta.currentSlots)

\* C37 witness: the second entry of the catalog was chosen, it is taken and
\* the first one is not: the stored catalog is the first one alone; and a
\* time of day with four free slots has a catalog of four
C37_Witness ==
  /\ calc.op = "calendar" /\ calc.out # <<>> /\ calc.bk.step = "time_selection"
  /\ \/ /\ calc.msg = "slot_1" /\ calc.free = {SlotLabel(18)}
        /\ \E r \in calc.out[1] :
             /\ InSeq("send:slot_taken", r.p.log)
             /\ findOne(r.w.db, calc.bk.phone).meta.currentSlots = <<SlotLabel(18)>>
     \/ /\ calc.msg = "tod_evening"
        /\ \E r \in calc.out[1] :
             Len(findOne(r.w.db, calc.bk.phone).meta.currentSlots) = 4

\* C40: a slot of the catalog that the recheck of the time step accepts
\* against a reported availability is accepted by the recheck of the commit
\* against the same report, whatever blanks and dash the report writes its
\* slots with.
C40_RechecksAgree ==
  (calc.op = "recheck" /\ Len(calc.out) = 4 /\ calc.out[2] # "" /\ calc.out[3])
  => calc.out[4]

(***************************************************************************)
(* Properties of two identities (PairSpec)                                 *)
(***************************************************************************)
\* C35: a step of the handler of one sender's message leaves the stored
\* sessions of the other sender as they were (none changed, created or
\* deleted), and the document the handler holds is a session of its own
\* sender, whatever the other handler has done in between.
C35_IdentitiesIndependent ==
  [][\A h \in Handlers :
       procs'[h] # procs[h]
       => /\ \A q \in {Sender(g) : g \in Handlers} \ {Sender(h)} :
               Matching(db', q) = Matching(db, q)
          /\ procs'[h].bk.id # 0 => procs'[h].bk.phone = Sender(h)]_vars

\* C35 witness: the first sender's session was deleted by its cancel while
\* the second sender's handler, past its lookup, is still at work on its own
\* stored session
C35_Witness ==
  /\ procs[1].pc = "done" /\ InSeq("db:delete", procs[1].log)
  /\ Matching(db, Sender(1)) = {}
  /\ procs[2].pc \notin {"idle", "findOne", "done"}
  /\ procs[2].bk.id # 0 /\ procs[2].bk.phone = Sender(2)
  /\ Matching(db, Sender(2)) # {}

====
